---------------------------- MODULE Spec2Model ----------------------------
(***************************************************************************)
(* Arbalest-Vec: the host/device mapping tracker driven by AnnotateMapping *)
(* (tsan_interface_ann.cpp, reproduced in src/README.md).                  *)
(*                                                                         *)
(* The annotated file holds the lifecycle dispatcher (AnnotateMapping) and *)
(* the per-thread side flag (AnnotateEnter/ExitTargetRegion).  The types   *)
(* and helpers it calls (Interval, MapInfo, Node, the interval tree behind *)
(* ctx->h_to_t / ctx->t_to_h, the Vsm* shadow updates, the ASSERT macro    *)
(* and the instrumented-load check) are defined elsewhere in the runtime;  *)
(* they are modelled here from the design document and marked as such.     *)
(*                                                                         *)
(* Addresses are small naturals.  Host addresses 0 .. HostSize-1 are       *)
(* application memory, HostSize and above are not.  Device addresses are   *)
(* 0 .. DevSize-1.  The shadow is indexed by host cell: every Vsm* call of *)
(* AnnotateMapping passes host.left_end.  MapInfo's var_name is carried by *)
(* the code but read by no step modelled here, so it is left out.          *)
(***************************************************************************)
EXTENDS Integers, Sequences, FiniteSets, TLC

VARIABLES
    h_to_t,             \* ctx->h_to_t : set of Nodes, host interval -> device MapInfo
    t_to_h,             \* ctx->t_to_h : set of Nodes, device interval -> host MapInfo
    shadow,             \* validity shadow: host cell -> [dev, host]
    is_on_target,       \* thr->is_on_target
    enable_annotations, \* flags()->enable_annotations
    halted,             \* a fatal ASSERT has ended the process
    call,               \* the last call made (lifecycle event or load) and its outcome
    hostHist,           \* history: per host address, the node of the latest Associate over it
    rt,                 \* history: how many steps of a round trip the last calls have made
    in_region,          \* history: the thread is between the entry and the exit of a target region
    toSince,            \* history: per cell, a To has covered it since the last Associate without To
    conc,               \* two threads inside AnnotateMapping at once (used by SpecConc only)
    run,                \* the OpenMP runtime replaying a test program (used by SpecRuntime only)
    sa,                 \* a thread inside an annotation entry point (used by SpecScoped only)
    fn,                 \* a function under the instrumentation pass (used by SpecPass only)
    thr,                \* per thread, the ThreadState fields the annotations write (used by SpecThr only)
    benign              \* dyn_ann_ctx->benign, the list of expected races (used by SpecBenign only)

vars == <<h_to_t, t_to_h, shadow, is_on_target, enable_annotations, halted, call,
          hostHist, rt, in_region, toSince, conc, run, sa, fn, thr, benign>>

-----------------------------------------------------------------------------
(* Bounds of the model *)

HostSize == 2

DevSize == 2

MaxBytes == 2

(* Bytes per shadow cell.  The runtime's value is 8; the model scales it   *)
(* with the address space and treats it as a bound.                        *)
kShadowCell == 1

-----------------------------------------------------------------------------
(* ompt_device_mem_flag_t, as flag names; optype is a set of them *)

ompt_device_mem_flag_to == "to"

ompt_device_mem_flag_from == "from"

ompt_device_mem_flag_alloc == "alloc"

ompt_device_mem_flag_release == "release"

ompt_device_mem_flag_associate == "associate"

ompt_device_mem_flag_disassociate == "disassociate"

Flags == {ompt_device_mem_flag_to, ompt_device_mem_flag_from,
          ompt_device_mem_flag_alloc, ompt_device_mem_flag_release,
          ompt_device_mem_flag_associate, ompt_device_mem_flag_disassociate}

(* The flag combinations fed to AnnotateMapping: the five the OMPT runtime  *)
(* delivers (alloc|associate, to, from, release|disassociate and           *)
(* to|alloc|associate), a copy combined with the removal of the record,    *)
(* the removal and the release on their own, and all six flags at once.    *)
FlagSets ==
    { {"alloc", "associate"}, {"to"}, {"from"}, {"release", "disassociate"},
      {"to", "alloc", "associate"},
      {"to", "disassociate"}, {"from", "disassociate"},
      {"disassociate"}, {"release"},
      Flags }

-----------------------------------------------------------------------------
(* Interval arithmetic and the interval tree *)

Max(a, b) == IF a >= b THEN a ELSE b

Min(a, b) == IF a <= b THEN a ELSE b

Interval(addr, bytes) == [left_end |-> addr, right_end |-> addr + bytes]

MapInfo(addr, bytes) == [start |-> addr, size |-> bytes]

Node(iv, info) == [interval |-> iv, info |-> info]

(* the closed test: intervals that touch overlap *)
OverlapClosed(i, j) == Max(i.left_end, j.left_end) <= Min(i.right_end, j.right_end)

Overlap(i, j) == Max(i.left_end, j.left_end) < Min(i.right_end, j.right_end)

Covers(i, a) == i.left_end <= a /\ a < i.right_end

(* insert: refused (false, tree unchanged) when a stored interval overlaps *)
InsertOk(tree, iv) == \A x \in tree : ~Overlap(x.interval, iv)

insert(tree, iv, info) ==
    IF InsertOk(tree, iv) THEN tree \cup {Node(iv, info)} ELSE tree

(* find: the node covering the first address of the interval, if any *)
find(tree, iv) == {x \in tree : Covers(x.interval, iv.left_end)}

(* remove: deletes the single node find returns *)
remove(tree, iv) == tree \ find(tree, iv)

removeAllNodesWithinRange(tree, iv) == {x \in tree : ~Overlap(x.interval, iv)}

-----------------------------------------------------------------------------
(* Validity shadow *)

IsAppMem(a) == a \in 0 .. (HostSize - 1)

Cells == 0 .. ((HostSize - 1) \div kShadowCell)

CellsOf(addr, bytes) ==
    {a \div kShadowCell : a \in addr .. (addr + bytes - 1)} \cap Cells

VsmRangeDeviceReset(sh, addr, bytes) ==
    [c \in Cells |-> IF c \in CellsOf(addr, bytes)
                     THEN [sh[c] EXCEPT !.dev = FALSE] ELSE sh[c]]

VsmRangeUpdateMapTo(sh, addr, bytes) ==
    [c \in Cells |-> IF c \in CellsOf(addr, bytes)
                     THEN [sh[c] EXCEPT !.dev = TRUE] ELSE sh[c]]

VsmRangeUpdateMapFrom(sh, addr, bytes) ==
    [c \in Cells |-> IF c \in CellsOf(addr, bytes)
                     THEN [sh[c] EXCEPT !.host = TRUE] ELSE sh[c]]

-----------------------------------------------------------------------------
(* AnnotateMapping.  A call threads a record st through its flag steps:    *)
(*   st.h, st.t, st.sh  the two stores and the shadow                      *)
(*   st.diag            "ok", or the ASSERT that failed                    *)
(*   st.trace           the steps entered, in the order they were entered  *)

(* ASSERT(cond, msg): on failure the message is printed and the process    *)
(* dies; no later statement of the call runs.                              *)
ASSERT(st, cond, msg) == IF cond THEN st ELSE [st EXCEPT !.diag = msg]

Enter(st, step) == [st EXCEPT !.trace = Append(@, step)]

StepAlloc(st) == Enter(st, "alloc")

(* StepAssociate without the host-side repair: a refused insert is left be *)
StepAssociateNoRepair(st, host, target, mh, mt, optype) ==
    LET b  == InsertOk(st.t, target)
        s1 == ASSERT([Enter(st, "associate") EXCEPT !.h = insert(st.h, host, mt),
                                                    !.t = insert(st.t, target, mh)],
                     b, "associate")
    IN  IF s1.diag = "ok" /\ ompt_device_mem_flag_to \notin optype
        THEN [s1 EXCEPT !.sh = VsmRangeDeviceReset(@, host.left_end,
                                                   host.right_end - host.left_end)]
        ELSE s1

(* StepAssociate repairing the device side the way it repairs the host side *)
StepAssociateDeviceRepair(st, host, target, mh, mt, optype) ==
    LET a  == InsertOk(st.h, host)
        b  == InsertOk(st.t, target)
        h2 == insert(removeAllNodesWithinRange(st.h, host), host, mt)
        t2 == insert(removeAllNodesWithinRange(st.t, target), target, mh)
        s1 == ASSERT([Enter(st, "associate") EXCEPT !.h = h2, !.t = t2],
                     b, "associate")
    IN  IF s1.diag = "ok" /\ ompt_device_mem_flag_to \notin optype
        THEN [s1 EXCEPT !.sh = VsmRangeDeviceReset(@, host.left_end,
                                                   host.right_end - host.left_end)]
        ELSE s1

(* StepAssociate repairing the host store by removing only the records     *)
(* that lie wholly within the new host range                               *)
StepAssociateRemoveWithin(st, host, target, mh, mt, optype) ==
    LET a  == InsertOk(st.h, host)
        b  == InsertOk(st.t, target)
        h1 == insert(st.h, host, mt)
        t1 == insert(st.t, target, mh)
        h2 == IF ~a THEN insert({x \in h1 : ~( /\ host.left_end <= x.interval.left_end
                                               /\ x.interval.right_end <= host.right_end )},
                                host, mt)
                    ELSE h1
        s1 == ASSERT([Enter(st, "associate") EXCEPT !.h = h2, !.t = t1],
                     b, "associate")
    IN  IF s1.diag = "ok" /\ ompt_device_mem_flag_to \notin optype
        THEN [s1 EXCEPT !.sh = VsmRangeDeviceReset(@, host.left_end,
                                                   host.right_end - host.left_end)]
        ELSE s1

(* StepAssociate without VsmRangeDeviceReset *)
StepAssociateNoReset(st, host, target, mh, mt, optype) ==
    LET a  == InsertOk(st.h, host)
        b  == InsertOk(st.t, target)
        h2 == insert(removeAllNodesWithinRange(st.h, host), host, mt)
        t1 == insert(st.t, target, mh)
    IN  ASSERT([Enter(st, "associate") EXCEPT !.h = h2, !.t = t1], b, "associate")

StepAssociate(st, host, target, mh, mt, optype) ==
    LET a  == InsertOk(st.h, host)
        b  == InsertOk(st.t, target)
        h1 == insert(st.h, host, mt)
        t1 == insert(st.t, target, mh)
        h2 == IF ~a THEN insert(removeAllNodesWithinRange(h1, host), host, mt)
                    ELSE h1
        s1 == ASSERT([Enter(st, "associate") EXCEPT !.h = h2, !.t = t1],
                     b, "associate")
    IN  IF s1.diag = "ok" /\ ompt_device_mem_flag_to \notin optype
        THEN [s1 EXCEPT !.sh = VsmRangeDeviceReset(@, host.left_end,
                                                   host.right_end - host.left_end)]
        ELSE s1

(* StepTo without the ASSERT on the lookup *)
StepToNoAssert(st, host, target) ==
    [Enter(st, "to") EXCEPT !.sh = VsmRangeUpdateMapTo(@, host.left_end,
                                                       host.right_end - host.left_end)]

(* StepTo passing the size of one byte instead of the size of the event *)
StepToOneByte(st, host, target) ==
    LET n  == find(st.t, target)
        s1 == ASSERT(Enter(st, "to"), n # {}, "to")
    IN  IF s1.diag = "ok"
        THEN [s1 EXCEPT !.sh = VsmRangeUpdateMapTo(@, host.left_end, 1)]
        ELSE s1

(* StepTo marking the range valid on both sides *)
StepToBothSides(st, host, target) ==
    LET n  == find(st.t, target)
        s1 == ASSERT(Enter(st, "to"), n # {}, "to")
    IN  IF s1.diag = "ok"
        THEN [s1 EXCEPT !.sh = VsmRangeUpdateMapFrom(
                                   VsmRangeUpdateMapTo(@, host.left_end,
                                                       host.right_end - host.left_end),
                                   host.left_end, host.right_end - host.left_end)]
        ELSE s1

(* StepTo marking every cell of the shadow instead of the cells of the range *)
StepToWholeShadow(st, host, target) ==
    LET n  == find(st.t, target)
        s1 == ASSERT(Enter(st, "to"), n # {}, "to")
    IN  IF s1.diag = "ok"
        THEN [s1 EXCEPT !.sh = [c \in Cells |-> [@[c] EXCEPT !.dev = TRUE]]]
        ELSE s1

(* CheckMappingBound only reports; it touches neither store nor shadow. *)
StepTo(st, host, target) ==
    LET n  == find(st.t, target)
        s1 == ASSERT(Enter(st, "to"), n # {}, "to")
    IN  IF s1.diag = "ok"
        THEN [s1 EXCEPT !.sh = VsmRangeUpdateMapTo(@, host.left_end,
                                                   host.right_end - host.left_end)]
        ELSE s1

(* StepFrom calling the To update where the From update belongs *)
StepFromAsTo(st, host, target) ==
    LET n  == find(st.t, target)
        s1 == ASSERT(Enter(st, "from"), n # {}, "from")
    IN  IF s1.diag = "ok"
        THEN [s1 EXCEPT !.sh = VsmRangeUpdateMapTo(@, host.left_end,
                                                   host.right_end - host.left_end)]
        ELSE s1

StepFrom(st, host, target) ==
    LET n  == find(st.t, target)
        s1 == ASSERT(Enter(st, "from"), n # {}, "from")
    IN  IF s1.diag = "ok"
        THEN [s1 EXCEPT !.sh = VsmRangeUpdateMapFrom(@, host.left_end,
                                                     host.right_end - host.left_end)]
        ELSE s1

(* StepDisassociate without the ASSERT on the lookup *)
StepDisassociateNoAssert(st, target) ==
    [Enter(st, "disassociate") EXCEPT !.t = remove(@, target)]

(* StepDisassociate looking the record up but leaving it in the store *)
StepDisassociateKeep(st, target) ==
    LET n  == find(st.t, target)
    IN  ASSERT(Enter(st, "disassociate"), n # {}, "disassociate")

(* StepDisassociate cutting the interval of the event out of the record    *)
(* and keeping what is left of it                                          *)
StepDisassociateTrim(st, target) ==
    LET n  == find(st.t, target)
        s1 == ASSERT(Enter(st, "disassociate"), n # {}, "disassociate")
        lo == {Node(Interval(x.interval.left_end,
                             target.left_end - x.interval.left_end),
                    MapInfo(x.info.start, target.left_end - x.interval.left_end)) :
                 x \in {y \in n : y.interval.left_end < target.left_end}}
        hi == {Node(Interval(target.right_end,
                             x.interval.right_end - target.right_end),
                    MapInfo(x.info.start + (target.right_end - x.interval.left_end),
                            x.interval.right_end - target.right_end)) :
                 x \in {y \in n : target.right_end < y.interval.right_end}}
    IN  IF s1.diag = "ok"
        THEN [s1 EXCEPT !.t = remove(@, target) \cup lo \cup hi]
        ELSE s1

StepDisassociate(st, target) ==
    LET n  == find(st.t, target)
        s1 == ASSERT(Enter(st, "disassociate"), n # {}, "disassociate")
    IN  IF s1.diag = "ok" THEN [s1 EXCEPT !.t = remove(@, target)] ELSE s1

(* the release body is commented out in the source: nothing is done *)
StepRelease(st) == Enter(st, "release")

(* the chain with the copy steps placed before the Associate step *)
StepOrderCopyFirst ==
    << ompt_device_mem_flag_alloc, ompt_device_mem_flag_to,
       ompt_device_mem_flag_from, ompt_device_mem_flag_associate,
       ompt_device_mem_flag_disassociate, ompt_device_mem_flag_release >>

(* the chain of `if (optype & flag)` statements, in source order *)
StepOrder ==
    << ompt_device_mem_flag_alloc, ompt_device_mem_flag_associate,
       ompt_device_mem_flag_to, ompt_device_mem_flag_from,
       ompt_device_mem_flag_disassociate, ompt_device_mem_flag_release >>

Step(st, f, host, target, mh, mt, optype) ==
    CASE f = ompt_device_mem_flag_alloc        -> StepAlloc(st)
      [] f = ompt_device_mem_flag_associate    -> StepAssociate(st, host, target, mh, mt, optype)
      [] f = ompt_device_mem_flag_to           -> StepTo(st, host, target)
      [] f = ompt_device_mem_flag_from         -> StepFrom(st, host, target)
      [] f = ompt_device_mem_flag_disassociate -> StepDisassociate(st, target)
      [] f = ompt_device_mem_flag_release      -> StepRelease(st)

(* statement i of the chain and those after it; a failed ASSERT ends the call *)
RECURSIVE MappingSteps(_, _, _, _, _, _, _)
MappingSteps(st, i, host, target, mh, mt, optype) ==
    IF i > Len(StepOrder) \/ st.diag # "ok" THEN st
    ELSE IF StepOrder[i] \in optype
         THEN MappingSteps(Step(st, StepOrder[i], host, target, mh, mt, optype),
                           i + 1, host, target, mh, mt, optype)
         ELSE MappingSteps(st, i + 1, host, target, mh, mt, optype)

(* MappingResult checking only the first byte of the host interval *)
MappingResultFirstByteOnly(h, t, sh, src_addr, dest_addr, bytes, optype) ==
    LET host   == Interval(src_addr, bytes)
        target == Interval(dest_addr, bytes)
        mh     == MapInfo(src_addr, bytes)
        mt     == MapInfo(dest_addr, bytes)
        st0    == ASSERT([h |-> h, t |-> t, sh |-> sh, diag |-> "ok", trace |-> <<>>],
                         IsAppMem(host.left_end),
                         "appmem")
    IN  MappingSteps(st0, 1, host, target, mh, mt, optype)

MappingResult(h, t, sh, src_addr, dest_addr, bytes, optype) ==
    LET host   == Interval(src_addr, bytes)
        target == Interval(dest_addr, bytes)
        mh     == MapInfo(src_addr, bytes)
        mt     == MapInfo(dest_addr, bytes)
        st0    == ASSERT([h |-> h, t |-> t, sh |-> sh, diag |-> "ok", trace |-> <<>>],
                         IsAppMem(host.left_end) /\ IsAppMem(host.right_end - 1),
                         "appmem")
    IN  MappingSteps(st0, 1, host, target, mh, mt, optype)

NoCall == [op |-> "none"]

NoNode == [interval |-> Interval(0, 0), info |-> MapInfo(0, 0)]

InTrace(trace, step) == \E i \in 1 .. Len(trace) : trace[i] = step

(* History of host associations: the Associate step has inserted on the    *)
(* host side as soon as it has been entered.                               *)
HostHistAfter(hist, src_addr, dest_addr, bytes, trace) ==
    IF InTrace(trace, "associate")
    THEN [a \in 0 .. (HostSize - 1) |->
            IF Covers(Interval(src_addr, bytes), a)
            THEN Node(Interval(src_addr, bytes), MapInfo(dest_addr, bytes))
            ELSE hist[a]]
    ELSE hist

(* History of the round trip Associate, To, From, Disassociate, Release on *)
(* the same (host, device, bytes): rt counts the steps made so far by      *)
(* consecutive lifecycle calls, the first of them on a registry holding no *)
(* record that overlaps the host or the device range.                      *)
SameTriple(c, src_addr, dest_addr, bytes) ==
    /\ c.op = "mapping"
    /\ c.src = src_addr /\ c.dest = dest_addr /\ c.bytes = bytes

RtAfter(h, t, c, phase, src_addr, dest_addr, bytes, optype, diag) ==
    IF diag # "ok" THEN 0
    ELSE IF /\ optype = {"alloc", "associate"}
            /\ InsertOk(h, Interval(src_addr, bytes))
            /\ InsertOk(t, Interval(dest_addr, bytes)) THEN 1
    ELSE IF ~SameTriple(c, src_addr, dest_addr, bytes) THEN 0
    ELSE IF phase = 1 /\ optype = {"to"} THEN 2
    ELSE IF phase = 2 /\ optype = {"from"} THEN 3
    ELSE IF phase = 3 /\ optype = {"disassociate"} THEN 4
    ELSE IF phase = 4 /\ optype = {"release"} THEN 5
    ELSE 0

(* the last call was a load or a bound check that reported a violation *)
Reported(c) ==
    \/ c.op = "read" /\ \E x \in DOMAIN c.report : c.report[x] > 0
    \/ c.op = "bound" /\ c.report > 0

(* History of the copies to the device: an Associate step that completed  *)
(* in a call without To forgets the copies over its range, a To step that  *)
(* completed records one for every cell of its range.                      *)
ToSinceAfter(hist, src_addr, bytes, optype, trace, diag) ==
    LET h1 == IF InTrace(trace, "associate") /\ diag # "associate"
                 /\ "to" \notin optype
              THEN [c \in Cells |-> IF c \in CellsOf(src_addr, bytes)
                                   THEN FALSE ELSE hist[c]]
              ELSE hist
    IN  IF InTrace(trace, "to") /\ diag # "to"
        THEN [c \in Cells |-> IF c \in CellsOf(src_addr, bytes) THEN TRUE ELSE h1[c]]
        ELSE h1

(* AnnotateMapping in a process that dies at the first lifecycle call made *)
(* after a reported violation                                              *)
AnnotateMappingHaltOnReport(src_addr, dest_addr, bytes, optype) ==
    /\ ~halted
    /\ IF ~enable_annotations \/ Reported(call)
       THEN /\ call' = [op |-> "mapping", src |-> src_addr, dest |-> dest_addr,
                        bytes |-> bytes, optype |-> optype,
                        diag |-> IF enable_annotations THEN "halt" ELSE "disabled",
                        trace |-> <<>>]
            /\ rt' = 0
            /\ halted' = enable_annotations
            /\ UNCHANGED <<h_to_t, t_to_h, shadow, hostHist, toSince>>
       ELSE \E r \in {MappingResult(h_to_t, t_to_h, shadow,
                                      src_addr, dest_addr, bytes, optype)} :
                /\ h_to_t' = r.h
                /\ t_to_h' = r.t
                /\ shadow' = r.sh
                /\ halted' = (r.diag # "ok")
                /\ call' = [op |-> "mapping", src |-> src_addr, dest |-> dest_addr,
                            bytes |-> bytes, optype |-> optype,
                            diag |-> r.diag, trace |-> r.trace]
                /\ hostHist' = HostHistAfter(hostHist, src_addr, dest_addr, bytes,
                                             r.trace)
                /\ rt' = RtAfter(h_to_t, t_to_h, call, rt, src_addr, dest_addr,
                                 bytes, optype, r.diag)
                /\ toSince' = ToSinceAfter(toSince, src_addr, bytes, optype,
                                           r.trace, r.diag)
    /\ UNCHANGED <<is_on_target, enable_annotations, in_region, conc, sa, fn, thr, benign>>

AnnotateMapping(src_addr, dest_addr, bytes, optype) ==
    /\ ~halted
    /\ IF ~enable_annotations
       THEN /\ call' = [op |-> "mapping", src |-> src_addr, dest |-> dest_addr,
                        bytes |-> bytes, optype |-> optype,
                        diag |-> "disabled", trace |-> <<>>]
            /\ rt' = 0
            /\ UNCHANGED <<h_to_t, t_to_h, shadow, halted, hostHist, toSince>>
       ELSE \E r \in {MappingResult(h_to_t, t_to_h, shadow,
                                      src_addr, dest_addr, bytes, optype)} :
                /\ h_to_t' = r.h
                /\ t_to_h' = r.t
                /\ shadow' = r.sh
                /\ halted' = (r.diag # "ok")
                /\ call' = [op |-> "mapping", src |-> src_addr, dest |-> dest_addr,
                            bytes |-> bytes, optype |-> optype,
                            diag |-> r.diag, trace |-> r.trace]
                /\ hostHist' = HostHistAfter(hostHist, src_addr, dest_addr, bytes,
                                             r.trace)
                /\ rt' = RtAfter(h_to_t, t_to_h, call, rt, src_addr, dest_addr,
                                 bytes, optype, r.diag)
                /\ toSince' = ToSinceAfter(toSince, src_addr, bytes, optype,
                                           r.trace, r.diag)
    /\ UNCHANGED <<is_on_target, enable_annotations, in_region, conc, sa, fn, thr, benign>>

(* AnnotateExitTargetRegion leaving thr->is_on_target as it is *)
AnnotateExitTargetRegionNoClear ==
    /\ ~halted
    /\ enable_annotations
    /\ is_on_target' = is_on_target
    /\ in_region' = FALSE
    /\ UNCHANGED <<h_to_t, t_to_h, shadow, enable_annotations, halted, call,
                   hostHist, rt, toSince, conc, run, sa, fn, thr, benign>>

AnnotateEnterTargetRegion ==
    /\ ~halted
    /\ enable_annotations
    /\ is_on_target' = TRUE
    /\ in_region' = TRUE
    /\ UNCHANGED <<h_to_t, t_to_h, shadow, enable_annotations, halted, call,
                   hostHist, rt, toSince, conc, run, sa, fn, thr, benign>>

AnnotateExitTargetRegion ==
    /\ ~halted
    /\ enable_annotations
    /\ is_on_target' = FALSE
    /\ in_region' = FALSE
    /\ UNCHANGED <<h_to_t, t_to_h, shadow, enable_annotations, halted, call,
                   hostHist, rt, toSince, conc, run, sa, fn, thr, benign>>

-----------------------------------------------------------------------------
(* The instrumented load.  On the target the device address is translated  *)
(* through t_to_h to the host address whose shadow holds the state; an     *)
(* address with no device record is not tracked.  The report gives, per    *)
(* accessed cell, the number of violations reported for it.                *)

AccessCells(t, on_target, addr, size) ==
    IF on_target
    THEN LET n == find(t, Interval(addr, size))
         IN  IF n = {} THEN {}
             ELSE LET x == CHOOSE y \in n : TRUE
                  IN  CellsOf(x.info.start + (addr - x.interval.left_end), size)
    ELSE CellsOf(addr, size)

CellInvalid(sh, on_target, c) == IF on_target THEN ~sh[c].dev ELSE ~sh[c].host

AccessReport(t, sh, on_target, addr, size) ==
    [c \in AccessCells(t, on_target, addr, size) |->
        IF CellInvalid(sh, on_target, c) THEN 1 ELSE 0]

(* a load that marks the cells it reads as valid on the side it read them *)
check_access_marking(addr, size) ==
    /\ ~halted
    /\ call' = [op |-> "read", addr |-> addr, size |-> size,
                on_target |-> is_on_target,
                report |-> AccessReport(t_to_h, shadow, is_on_target, addr, size)]
    /\ shadow' = [c \in Cells |->
                    IF c \in AccessCells(t_to_h, is_on_target, addr, size)
                    THEN (IF is_on_target THEN [shadow[c] EXCEPT !.dev = TRUE]
                                          ELSE [shadow[c] EXCEPT !.host = TRUE])
                    ELSE shadow[c]]
    /\ rt' = 0
    /\ UNCHANGED <<h_to_t, t_to_h, is_on_target, enable_annotations, halted,
                   hostHist, in_region, toSince, conc, sa, fn, thr, benign>>

check_access(addr, size) ==
    /\ ~halted
    /\ call' = [op |-> "read", addr |-> addr, size |-> size,
                on_target |-> is_on_target,
                report |-> AccessReport(t_to_h, shadow, is_on_target, addr, size)]
    /\ rt' = 0
    /\ UNCHANGED <<h_to_t, t_to_h, shadow, is_on_target, enable_annotations, halted,
                   hostHist, in_region, toSince, conc, sa, fn, thr, benign>>

-----------------------------------------------------------------------------
(* The bound check placed after pointer arithmetic on a tracked base.  The *)
(* record registered for the base is the record over base in the store of  *)
(* the side the thread is on; a base with no record is not tracked.        *)

BoundRecord(h, t, on_target, base) ==
    find(IF on_target THEN t ELSE h, Interval(base, 1))

(* the access [derived, derived+size) leaves the range of the record, taken *)
(* as closed: the end address is accepted                                   *)
OutOfBoundClosed(x, derived, size) ==
    ~(x.interval.left_end <= derived /\ derived + size <= x.interval.right_end + 1)

(* the access [derived, derived+size) leaves the half-open range of the record *)
OutOfBound(x, derived, size) ==
    ~(x.interval.left_end <= derived /\ derived + size <= x.interval.right_end)

BoundReport(h, t, on_target, base, derived, size) ==
    IF \E x \in BoundRecord(h, t, on_target, base) : OutOfBound(x, derived, size)
    THEN 1 ELSE 0

check_bound(base, derived, size) ==
    /\ ~halted
    /\ call' = [op |-> "bound", base |-> base, derived |-> derived, size |-> size,
                on_target |-> is_on_target,
                report |-> BoundReport(h_to_t, t_to_h, is_on_target,
                                       base, derived, size)]
    /\ rt' = 0
    /\ UNCHANGED <<h_to_t, t_to_h, shadow, is_on_target, enable_annotations, halted,
                   hostHist, in_region, toSince, conc, sa, fn, thr, benign>>

-----------------------------------------------------------------------------

NoConc == [halted |-> TRUE]

NoRun == [variant |-> "none"]

NoSa == [pc |-> "none"]

NoFn == [name |-> "none"]

NoThr == [t \in {} |-> 0]

NoBenign == [present |-> FALSE]

Init ==
    /\ h_to_t = {}
    /\ t_to_h = {}
    /\ shadow = [c \in Cells |-> [dev |-> FALSE, host |-> FALSE]]
    /\ is_on_target = FALSE
    /\ enable_annotations \in BOOLEAN
    /\ halted = FALSE
    /\ call = NoCall
    /\ hostHist = [a \in 0 .. (HostSize - 1) |-> NoNode]
    /\ rt = 0
    /\ in_region = FALSE
    /\ toSince = [c \in Cells |-> FALSE]
    /\ conc = NoConc
    /\ run = NoRun
    /\ sa = NoSa
    /\ fn = NoFn
    /\ thr = NoThr
    /\ benign = NoBenign

Mapping ==
    \E src_addr \in 0 .. (HostSize - 1), dest_addr \in 0 .. (DevSize - 1),
       bytes \in 1 .. MaxBytes, optype \in FlagSets :
        /\ dest_addr + bytes <= DevSize
        /\ AnnotateMapping(src_addr, dest_addr, bytes, optype)
        /\ UNCHANGED run

Access ==
    \E addr \in 0 .. (Max(HostSize, DevSize) - 1), size \in 1 .. MaxBytes :
        /\ addr + size <= (IF is_on_target THEN DevSize ELSE HostSize)
        /\ check_access(addr, size)
        /\ UNCHANGED run

(* the base of a GEP and the pointer derived from it, at most MaxBytes     *)
(* past the base                                                           *)
Bound ==
    \E base \in 0 .. (Max(HostSize, DevSize) - 1),
       off \in 0 .. MaxBytes, size \in 1 .. MaxBytes :
        /\ base < (IF is_on_target THEN DevSize ELSE HostSize)
        /\ check_bound(base, base + off, size)
        /\ UNCHANGED run

Next ==
    \/ Mapping
    \/ AnnotateEnterTargetRegion
    \/ AnnotateExitTargetRegion
    \/ Access
    \/ Bound

Spec == Init /\ [][Next]_vars

-----------------------------------------------------------------------------
(* Two threads inside AnnotateMapping at the same time.  AnnotateMapping   *)
(* takes no lock: between SCOPED_ANNOTATION and its closing brace there is *)
(* no Lock object and no mutex call, so the statements of two calls        *)
(* interleave.  Each call of a tree operation or of a Vsm* function is     *)
(* taken as one indivisible step, the most a lock inside those functions   *)
(* could give.  conc holds the shared stores and shadow (h, t, sh), their  *)
(* values before the two calls (h0, t0, sh0), and per thread the arguments *)
(* of its call, its position pc in ConcLabels and its locals a and b.      *)

Threads == {1, 2}

(* the statements of AnnotateMapping that read or write shared state *)
ConcLabels ==
    << "appmem", "ins_h", "ins_t", "repair_rm", "repair_ins", "assert_b", "reset",
       "to_find", "to_vsm", "from_find", "from_vsm", "dis_find", "dis_rm", "done" >>

(* the statement is reached by a call with these flags and this local a *)
Applicable(l, optype, a) ==
    CASE l \in {"appmem", "done"} -> TRUE
      [] l \in {"ins_h", "ins_t", "assert_b"} ->
            ompt_device_mem_flag_associate \in optype
      [] l \in {"repair_rm", "repair_ins"} ->
            ompt_device_mem_flag_associate \in optype /\ ~a
      [] l = "reset" ->
            /\ ompt_device_mem_flag_associate \in optype
            /\ ompt_device_mem_flag_to \notin optype
      [] l \in {"to_find", "to_vsm"} -> ompt_device_mem_flag_to \in optype
      [] l \in {"from_find", "from_vsm"} -> ompt_device_mem_flag_from \in optype
      [] l \in {"dis_find", "dis_rm"} -> ompt_device_mem_flag_disassociate \in optype

(* the first statement at or after position i that the call reaches *)
RECURSIVE NextPc(_, _, _)
NextPc(i, optype, a) ==
    IF i >= Len(ConcLabels) \/ Applicable(ConcLabels[i], optype, a) THEN i
    ELSE NextPc(i + 1, optype, a)

(* thread p executes the statement it is at *)
ConcStep(c, p) ==
    LET th     == c.th[p]
        l      == ConcLabels[th.pc]
        host   == Interval(th.src, th.bytes)
        target == Interval(th.dest, th.bytes)
        mh     == MapInfo(th.src, th.bytes)
        mt     == MapInfo(th.dest, th.bytes)
        a1     == IF l = "ins_h" THEN InsertOk(c.h, host) ELSE th.a
        b1     == IF l = "ins_t" THEN InsertOk(c.t, target) ELSE th.b
        dies   == CASE l = "appmem" ->
                         ~(IsAppMem(host.left_end) /\ IsAppMem(host.right_end - 1))
                    [] l = "assert_b" -> ~th.b
                    [] l \in {"to_find", "from_find", "dis_find"} ->
                         find(c.t, target) = {}
                    [] OTHER -> FALSE
        h1     == CASE l \in {"ins_h", "repair_ins"} -> insert(c.h, host, mt)
                    [] l = "repair_rm" -> removeAllNodesWithinRange(c.h, host)
                    [] OTHER -> c.h
        t1     == CASE l = "ins_t" -> insert(c.t, target, mh)
                    [] l = "dis_rm" -> remove(c.t, target)
                    [] OTHER -> c.t
        sh1    == CASE l = "reset" -> VsmRangeDeviceReset(c.sh, host.left_end, th.bytes)
                    [] l = "to_vsm" -> VsmRangeUpdateMapTo(c.sh, host.left_end, th.bytes)
                    [] l = "from_vsm" ->
                         VsmRangeUpdateMapFrom(c.sh, host.left_end, th.bytes)
                    [] OTHER -> c.sh
    IN  [c EXCEPT !.h = h1, !.t = t1, !.sh = sh1,
                  !.halted = dies,
                  !.th[p] = [th EXCEPT !.a = a1, !.b = b1,
                                       !.pc = IF dies THEN th.pc
                                              ELSE NextPc(th.pc + 1, th.optype, a1)]]

ThreadStep(p) ==
    /\ ~conc.halted
    /\ ConcLabels[conc.th[p].pc] # "done"
    /\ conc' = ConcStep(conc, p)
    /\ UNCHANGED <<h_to_t, t_to_h, shadow, is_on_target, enable_annotations, halted,
                   call, hostHist, rt, in_region, toSince, run, sa, fn, thr, benign>>

(* the registry the two calls find: empty, or holding the host record that *)
(* an Associate of (0, 0, MaxBytes) followed by a Disassociate has left    *)
ConcRegistries ==
    { {}, {Node(Interval(0, MaxBytes), MapInfo(0, MaxBytes))} }

ConcArgs ==
    { x \in [src : 0 .. (HostSize - 1), dest : 0 .. (DevSize - 1),
             bytes : 1 .. MaxBytes, optype : FlagSets] :
        x.dest + x.bytes <= DevSize }

ConcInit ==
    /\ h_to_t = {}
    /\ t_to_h = {}
    /\ shadow = [c \in Cells |-> [dev |-> FALSE, host |-> FALSE]]
    /\ is_on_target = FALSE
    /\ enable_annotations = TRUE
    /\ halted = FALSE
    /\ call = NoCall
    /\ hostHist = [a \in 0 .. (HostSize - 1) |-> NoNode]
    /\ rt = 0
    /\ in_region = FALSE
    /\ toSince = [c \in Cells |-> FALSE]
    /\ run = NoRun
    /\ sa = NoSa
    /\ fn = NoFn
    /\ thr = NoThr
    /\ benign = NoBenign
    /\ \E h0 \in ConcRegistries, x1 \in ConcArgs, x2 \in ConcArgs :
          conc = [h |-> h0, t |-> {}, sh |-> shadow,
                  h0 |-> h0, t0 |-> {}, sh0 |-> shadow,
                  halted |-> FALSE,
                  th |-> [p \in Threads |->
                            LET x == IF p = 1 THEN x1 ELSE x2
                            IN  [src |-> x.src, dest |-> x.dest, bytes |-> x.bytes,
                                 optype |-> x.optype, pc |-> 1,
                                 a |-> TRUE, b |-> TRUE]]]

ConcNext == \E p \in Threads : ThreadStep(p)

SpecConc == ConcInit /\ [][ConcNext]_vars

-----------------------------------------------------------------------------
(* The OpenMP runtime running the test programs of                         *)
(* openmp/libomptarget/test/ompt: it delivers the OMPT events in the order *)
(* the tests expect them, and every ompt_event_device_mem is handed to     *)
(* AnnotateMapping with its host address, target address, bytes and flags. *)
(* run holds the program (variant), the mapped variables (var), the        *)
(* construct being executed (k), how many of its events have been          *)
(* delivered (pos), where the encountering thread is (mpc), how often the  *)
(* program has run its constructs (round) and the events delivered so far  *)
(* (log).                                                                  *)

MaxRounds == 2

Variants == {"sync", "async", "emi", "global"}

Ev(e, f) == [e |-> e, f |-> f]

(* an event as the log keeps it: with the variable of its construct *)
Logged(e, v) == [e |-> e.e, f |-> e.f, v |-> v]

(* target enter data map(to: a), without EMI callbacks *)
EnterData ==
    << Ev("target_begin", {}), Ev("data_op", {"alloc"}),
       Ev("device_mem", {"alloc", "associate"}), Ev("device_mem", {"to"}),
       Ev("data_op", {"transfer_to_device"}),
       Ev("target_map", {}), Ev("target_end", {}) >>

(* target map(a) inside the data region: the variable is already present *)
NestedTarget ==
    << Ev("target_begin", {}), Ev("target_map", {}), Ev("target_submit", {}),
       Ev("target_end", {}) >>

(* target exit data map(from: a), without EMI callbacks *)
ExitData ==
    << Ev("target_begin", {}), Ev("device_mem", {"from"}),
       Ev("data_op", {"transfer_from_device"}), Ev("data_op", {"delete"}),
       Ev("device_mem", {"release", "disassociate"}),
       Ev("target_map", {}), Ev("target_end", {}) >>

(* entry of target data map(tofrom: a[0:N]), with EMI callbacks *)
EmiEnterData ==
    << Ev("target_emi_begin", {}),
       Ev("data_op_emi_begin", {"alloc"}), Ev("data_op_emi_end", {"alloc"}),
       Ev("device_mem", {"alloc", "associate"}), Ev("device_mem", {"to"}),
       Ev("data_op_emi_begin", {"transfer_to_device"}),
       Ev("data_op_emi_end", {"transfer_to_device"}),
       Ev("target_map_emi", {}), Ev("target_emi_end", {}) >>

EmiNestedTarget ==
    << Ev("target_emi_begin", {}), Ev("target_map_emi", {}),
       Ev("target_submit_emi_begin", {}), Ev("target_submit_emi_end", {}),
       Ev("target_emi_end", {}) >>

(* exit of target data map(tofrom: a[0:N]), with EMI callbacks *)
EmiExitData ==
    << Ev("target_emi_begin", {}), Ev("device_mem", {"from"}),
       Ev("data_op_emi_begin", {"transfer_from_device"}),
       Ev("data_op_emi_end", {"transfer_from_device"}),
       Ev("data_op_emi_begin", {"delete"}), Ev("data_op_emi_end", {"delete"}),
       Ev("device_mem", {"release", "disassociate"}),
       Ev("target_map_emi", {}), Ev("target_emi_end", {}) >>

(* initialization of the declare-target global a *)
GlobalInit ==
    << Ev("target_begin", {}), Ev("device_mem", {"to", "alloc", "associate"}),
       Ev("target_map", {}), Ev("target_end", {}) >>

(* target map(tofrom: a_addr) *)
TargetTofrom ==
    << Ev("target_begin", {}), Ev("data_op", {"alloc"}),
       Ev("device_mem", {"alloc", "associate"}), Ev("device_mem", {"to"}),
       Ev("data_op", {"transfer_to_device"}),
       Ev("target_map", {}), Ev("target_submit", {}),
       Ev("device_mem", {"from"}), Ev("data_op", {"transfer_from_device"}),
       Ev("data_op", {"delete"}), Ev("device_mem", {"release", "disassociate"}),
       Ev("target_end", {}) >>

(* the events of construct k of the program *)
Events(variant, k) ==
    CASE variant \in {"sync", "async"} ->
             (CASE k = 1 -> EnterData [] k = 2 -> NestedTarget [] k = 3 -> ExitData)
      [] variant = "emi" ->
             (CASE k = 1 -> EmiEnterData [] k = 2 -> EmiNestedTarget
                [] k = 3 -> EmiExitData)
      [] variant = "global" ->
             (CASE k = 1 -> GlobalInit [] k = 2 -> TargetTofrom)

NumConstructs(variant) == IF variant = "global" THEN 2 ELSE 3

(* the construct a further run of the program starts at: the global is     *)
(* initialized once                                                        *)
FirstRepeated(variant) == IF variant = "global" THEN 2 ELSE 1

(* the variable the device_mem events of construct k are about *)
VarOf(variant, k) == IF variant = "global" /\ k = 2 THEN 2 ELSE 1

(* a variable lies in application memory and in device memory *)
RtVars ==
    { x \in [src : 0 .. (HostSize - 1), dest : 0 .. (DevSize - 1),
             bytes : 1 .. MaxBytes] :
        x.src + x.bytes <= HostSize /\ x.dest + x.bytes <= DevSize }

Disjoint(x, y) ==
    /\ ~Overlap(Interval(x.src, x.bytes), Interval(y.src, y.bytes))
    /\ ~Overlap(Interval(x.dest, x.bytes), Interval(y.dest, y.bytes))

RtInit ==
    /\ h_to_t = {}
    /\ t_to_h = {}
    /\ shadow = [c \in Cells |-> [dev |-> FALSE, host |-> FALSE]]
    /\ is_on_target = FALSE
    /\ enable_annotations = TRUE
    /\ halted = FALSE
    /\ call = NoCall
    /\ hostHist = [a \in 0 .. (HostSize - 1) |-> NoNode]
    /\ rt = 0
    /\ in_region = FALSE
    /\ toSince = [c \in Cells |-> FALSE]
    /\ conc = NoConc
    /\ sa = NoSa
    /\ fn = NoFn
    /\ thr = NoThr
    /\ benign = NoBenign
    /\ \E variant \in Variants, x \in RtVars, y \in RtVars :
          /\ IF variant = "global" THEN Disjoint(x, y) ELSE y = x
          /\ run = [variant |-> variant,
                    var |-> IF variant = "global" THEN <<x, y>> ELSE <<x>>,
                    k |-> 1, pos |-> 0, mpc |-> "issue", round |-> 1,
                    log |-> <<>>]

(* the thread encounters construct k: it runs the construct itself, or,    *)
(* with nowait, creates the target task and goes on                        *)
RtIssue ==
    /\ ~halted
    /\ run.mpc = "issue"
    /\ run' = IF run.variant = "async"
              THEN [run EXCEPT !.mpc = "deferred",
                               !.log = Append(@, Logged(Ev("task_create", {}),
                                                       VarOf(run.variant, run.k)))]
              ELSE [run EXCEPT !.mpc = "running"]
    /\ UNCHANGED <<h_to_t, t_to_h, shadow, is_on_target, enable_annotations, halted,
                   call, hostHist, rt, in_region, toSince, conc, sa, fn, thr, benign>>

RtPending ==
    /\ run.mpc \in {"running", "deferred"}
    /\ run.pos < Len(Events(run.variant, run.k))

RtDelivered(e) ==
    [run EXCEPT !.pos = @ + 1,
                !.log = Append(@, Logged(e, VarOf(run.variant, run.k)))]

(* the next event of the construct is not a device_mem event *)
RtEvent ==
    /\ ~halted
    /\ RtPending
    /\ \E e \in {Events(run.variant, run.k)[run.pos + 1]} :
          /\ e.e # "device_mem"
          /\ run' = RtDelivered(e)
    /\ UNCHANGED <<h_to_t, t_to_h, shadow, is_on_target, enable_annotations, halted,
                   call, hostHist, rt, in_region, toSince, conc, sa, fn, thr, benign>>

(* the next event of the construct is a device_mem event *)
RtDeviceMem ==
    /\ RtPending
    /\ \E e \in {Events(run.variant, run.k)[run.pos + 1]},
          x \in {run.var[VarOf(run.variant, run.k)]} :
          /\ e.e = "device_mem"
          /\ AnnotateMapping(x.src, x.dest, x.bytes, e.f)
          /\ run' = RtDelivered(e)

(* the construct returns, or the taskwait after a nowait construct returns: *)
(* the target task has completed                                            *)
RtSync ==
    /\ ~halted
    /\ run.mpc \in {"running", "deferred"}
    /\ run.pos = Len(Events(run.variant, run.k))
    /\ run' = [run EXCEPT !.mpc = "synced"]
    /\ UNCHANGED <<h_to_t, t_to_h, shadow, is_on_target, enable_annotations, halted,
                   call, hostHist, rt, in_region, toSince, conc, sa, fn, thr, benign>>

(* the loads and bound checks of the encountering thread: after the        *)
(* synchronization point, and between a nowait construct and its taskwait  *)
RtMayCheck == run.mpc \in {"deferred", "synced"}

RtCheckAccess ==
    /\ RtMayCheck
    /\ \E addr \in 0 .. (Max(HostSize, DevSize) - 1), size \in 1 .. MaxBytes :
          /\ addr + size <= (IF is_on_target THEN DevSize ELSE HostSize)
          /\ check_access(addr, size)
    /\ UNCHANGED run

RtCheckBound ==
    /\ RtMayCheck
    /\ \E base \in 0 .. (Max(HostSize, DevSize) - 1),
          off \in 0 .. MaxBytes, size \in 1 .. MaxBytes :
          /\ base < (IF is_on_target THEN DevSize ELSE HostSize)
          /\ check_bound(base, base + off, size)
    /\ UNCHANGED run

RtEnterRegion ==
    /\ RtMayCheck
    /\ ~is_on_target
    /\ AnnotateEnterTargetRegion

RtExitRegion ==
    /\ RtMayCheck
    /\ is_on_target
    /\ AnnotateExitTargetRegion

(* the thread goes on to the next construct; when the program runs its     *)
(* constructs again the runtime allocates the device memory anew           *)
RtNextConstruct ==
    /\ ~halted
    /\ run.mpc = "synced"
    /\ ~is_on_target
    /\ IF run.k < NumConstructs(run.variant)
       THEN run' = [run EXCEPT !.k = @ + 1, !.pos = 0, !.mpc = "issue"]
       ELSE /\ run.round < MaxRounds
            /\ \E v \in {VarOf(run.variant, FirstRepeated(run.variant))},
                  d \in 0 .. (DevSize - 1) :
                  \E x \in {[run.var[v] EXCEPT !.dest = d]} :
                     /\ x \in RtVars
                     /\ \A w \in DOMAIN run.var :
                           w # v => ~Overlap(Interval(x.dest, x.bytes),
                                             Interval(run.var[w].dest,
                                                      run.var[w].bytes))
                     /\ run' = [run EXCEPT !.k = FirstRepeated(run.variant),
                                           !.pos = 0, !.mpc = "issue",
                                           !.round = @ + 1, !.var[v] = x]
    /\ UNCHANGED <<h_to_t, t_to_h, shadow, is_on_target, enable_annotations, halted,
                   call, hostHist, rt, in_region, toSince, conc, sa, fn, thr, benign>>

RtNext ==
    \/ RtIssue
    \/ RtEvent
    \/ RtDeviceMem
    \/ RtSync
    \/ RtCheckAccess
    \/ RtCheckBound
    \/ RtEnterRegion
    \/ RtExitRegion
    \/ RtNextConstruct

SpecRuntime == RtInit /\ [][RtNext]_vars

-----------------------------------------------------------------------------
(* Lifecycle events of any size, the size 0 included (bytes is an uptr):   *)
(* associations and disassociations of ranges of 0 .. MaxBytes bytes.      *)

MappingZeroBytes ==
    \E src_addr \in 0 .. (HostSize - 1), dest_addr \in 0 .. (DevSize - 1),
       bytes \in 0 .. MaxBytes,
       optype \in { {"alloc", "associate"}, {"release", "disassociate"} } :
        /\ dest_addr + bytes <= DevSize
        /\ AnnotateMapping(src_addr, dest_addr, bytes, optype)
        /\ UNCHANGED run

SpecZeroBytes == Init /\ [][MappingZeroBytes]_vars

-----------------------------------------------------------------------------
(* A thread calling the annotation entry points.  sa holds the thread's    *)
(* position (pc), the entry point it is in (entry), the depth of its       *)
(* shadow call stack (depth) and the depth at the call (depth0), the       *)
(* number of runtime mutexes it holds (locks) and the FuncEntry and        *)
(* FuncExit calls made since the call (entries, exits).                    *)

MaxDepth == 3

(* Entry points of the interface, one or more of each shape: scoped says   *)
(* whether the function begins with SCOPED_ANNOTATION, body what follows:  *)
(* "plain" statements, BenignRaceImpl taking dyn_ann_ctx->mtx ("lock"),    *)
(* the ASSERTs of AnnotateMapping ("assert"), or nothing ("none").         *)
EntryPoints ==
    { [name |-> "AnnotateHappensBefore", scoped |-> TRUE, body |-> "plain"],
      [name |-> "AnnotateBenignRaceSized", scoped |-> TRUE, body |-> "lock"],
      [name |-> "AnnotateBenignRace", scoped |-> TRUE, body |-> "lock"],
      [name |-> "AnnotateThreadName", scoped |-> TRUE, body |-> "plain"],
      [name |-> "AnnotateMapping", scoped |-> TRUE, body |-> "assert"],
      [name |-> "AnnotateEnterTargetRegion", scoped |-> TRUE, body |-> "plain"],
      [name |-> "AnnotateExitTargetRegion", scoped |-> TRUE, body |-> "plain"],
      [name |-> "__tsan_mutex_pre_unlock", scoped |-> TRUE, body |-> "plain"],
      [name |-> "AnnotateCondVarSignal", scoped |-> FALSE, body |-> "none"],
      [name |-> "AnnotateExpectRace", scoped |-> FALSE, body |-> "none"],
      [name |-> "AnnotateMemoryIsInitialized", scoped |-> FALSE, body |-> "none"],
      [name |-> "AnnotateArbalestVerboseMode", scoped |-> FALSE, body |-> "plain"],
      [name |-> "AnnotatePrintf", scoped |-> FALSE, body |-> "plain"] }

NoEntry == [name |-> "none", scoped |-> FALSE, body |-> "none"]

(* ScopedAnnotation(thr, aname, pc): FuncEntry(thr_, pc) *)
ScopedAnnotationCtor(s) == [s EXCEPT !.depth = @ + 1, !.entries = @ + 1]

(* a destructor that leaves the frame on the shadow call stack *)
ScopedAnnotationDtorNoExit(s) == s

(* ~ScopedAnnotation(): FuncExit(thr_); CheckedMutex::CheckNoLocks() dies  *)
(* when the thread holds a mutex                                           *)
ScopedAnnotationDtor(s) ==
    IF s.locks # 0 THEN [s EXCEPT !.depth = @ - 1, !.exits = @ + 1, !.pc = "dead"]
    ELSE [s EXCEPT !.depth = @ - 1, !.exits = @ + 1]

SaInit ==
    /\ h_to_t = {}
    /\ t_to_h = {}
    /\ shadow = [c \in Cells |-> [dev |-> FALSE, host |-> FALSE]]
    /\ is_on_target = FALSE
    /\ enable_annotations \in BOOLEAN
    /\ halted = FALSE
    /\ call = NoCall
    /\ hostHist = [a \in 0 .. (HostSize - 1) |-> NoNode]
    /\ rt = 0
    /\ in_region = FALSE
    /\ toSince = [c \in Cells |-> FALSE]
    /\ conc = NoConc
    /\ run = NoRun
    /\ fn = NoFn
    /\ thr = NoThr
    /\ benign = NoBenign
    /\ sa = [pc |-> "idle", entry |-> NoEntry, depth |-> 0, depth0 |-> 0,
             locks |-> 0, entries |-> 0, exits |-> 0]

SaFrame ==
    UNCHANGED <<h_to_t, t_to_h, shadow, is_on_target, enable_annotations, halted,
                call, hostHist, rt, in_region, toSince, conc, run, fn, thr, benign>>

(* the instrumented code of the thread enters and leaves its own functions *)
SaFuncEntry ==
    /\ sa.pc = "idle"
    /\ sa.depth < MaxDepth
    /\ sa' = [sa EXCEPT !.depth = @ + 1]
    /\ SaFrame

SaFuncExit ==
    /\ sa.pc = "idle"
    /\ sa.depth > 0
    /\ sa' = [sa EXCEPT !.depth = @ - 1]
    /\ SaFrame

(* the thread calls an entry point *)
SaCall ==
    /\ sa.pc = "idle"
    /\ \E e \in EntryPoints :
          sa' = [sa EXCEPT !.pc = "called", !.entry = e, !.depth0 = sa.depth,
                           !.entries = 0, !.exits = 0]
    /\ SaFrame

(* SCOPED_ANNOTATION_RET: return when annotations are disabled, else       *)
(* construct the ScopedAnnotation; an entry point without the macro goes   *)
(* to its body                                                             *)
SaScoped ==
    /\ sa.pc = "called"
    /\ sa' = IF ~sa.entry.scoped THEN [sa EXCEPT !.pc = "body"]
             ELSE IF ~enable_annotations THEN [sa EXCEPT !.pc = "returned"]
             ELSE [ScopedAnnotationCtor(sa) EXCEPT !.pc = "body"]
    /\ SaFrame

(* the body: BenignRaceImpl constructs its Lock, an ASSERT of              *)
(* AnnotateMapping holds or ends the process, other bodies run through     *)
SaBody ==
    /\ sa.pc = "body"
    /\ \/ /\ sa.entry.body = "lock"
          /\ sa' = [sa EXCEPT !.pc = "locked", !.locks = @ + 1]
       \/ /\ sa.entry.body = "assert"
          /\ \E ok \in BOOLEAN : sa' = [sa EXCEPT !.pc = IF ok THEN "exit" ELSE "dead"]
       \/ /\ sa.entry.body \in {"plain", "none"}
          /\ sa' = [sa EXCEPT !.pc = "exit"]
    /\ SaFrame

(* BenignRaceImpl returns: its Lock is destroyed *)
SaUnlock ==
    /\ sa.pc = "locked"
    /\ sa' = [sa EXCEPT !.pc = "exit", !.locks = @ - 1]
    /\ SaFrame

(* the closing brace of the entry point: the ScopedAnnotation, if one was  *)
(* constructed, is destroyed                                               *)
SaExit ==
    /\ sa.pc = "exit"
    /\ sa' = IF sa.entry.scoped
             THEN LET s == ScopedAnnotationDtor(sa)
                  IN  IF s.pc = "dead" THEN s ELSE [s EXCEPT !.pc = "returned"]
             ELSE [sa EXCEPT !.pc = "returned"]
    /\ SaFrame

(* the caller goes on *)
SaReturn ==
    /\ sa.pc = "returned"
    /\ sa' = [sa EXCEPT !.pc = "idle"]
    /\ SaFrame

SaNext ==
    \/ SaFuncEntry
    \/ SaFuncExit
    \/ SaCall
    \/ SaScoped
    \/ SaBody
    \/ SaUnlock
    \/ SaExit
    \/ SaReturn

SpecScoped == SaInit /\ [][SaNext]_vars

-----------------------------------------------------------------------------
(* The instrumentation pass on one function.  fn holds the function: its   *)
(* name (prefixed: it starts with the OpenMP outlined-function prefix),    *)
(* the attribute that makes sanitizeFunction return at once (attr), the    *)
(* option ClEnableArbalest (arbalest), its instructions (insts), the       *)
(* position of the pass (phase, i) and the calls to __arbalest_check_bound *)
(* emitted so far (calls), each with the load it stands before.  An        *)
(* instruction is a GEP on the pointer base, or a load or a store of a     *)
(* type of some store size in bits through the result of instruction ptr   *)
(* (ptr = 0: through a pointer that is not the result of a GEP).           *)

MaxInsts == 3

(* store sizes in bits of the loaded types: i32, i128, and x86_fp80 *)
TypeBits == {32, 128, 80}

Instructions ==
    [op : {"gep"}, base : {"a", "b"}, ptr : {0}, bits : {0}]
    \cup [op : {"load"}, base : {"-"}, ptr : 0 .. (MaxInsts - 1), bits : TypeBits]
    \cup [op : {"store"}, base : {"-"}, ptr : 0 .. (MaxInsts - 1), bits : {32}]

(* every pointer operand that is a result is the result of an earlier GEP *)
WellFormed(insts) ==
    \A j \in 1 .. Len(insts) :
        insts[j].ptr # 0 => (insts[j].ptr < j /\ insts[insts[j].ptr].op = "gep")

Functions ==
    { f \in [prefixed : BOOLEAN, attr : {"none", "naked", "disabled"},
             arbalest : BOOLEAN, insts : [1 .. MaxInsts -> Instructions]] :
        WellFormed(f.insts) }

getMemoryAccessSize(TypeSize) ==
    IF TypeSize # 8 /\ TypeSize # 16 /\ TypeSize # 32
       /\ TypeSize # 64 /\ TypeSize # 128
    THEN -1
    ELSE TypeSize \div 8

(* instrumentGEP: one call before every load among the users of the GEP.   *)
(* assert(size > 0) names no variable of the function (the size computed   *)
(* is Size) and is not compiled without assertions: it stops no call.      *)
instrumentGEP(insts, g) ==
    { [load |-> j, base |-> insts[g].base, derived |-> g,
       size |-> getMemoryAccessSize(insts[j].bits)] :
        j \in {k \in 1 .. Len(insts) : insts[k].op = "load" /\ insts[k].ptr = g} }

PassInit ==
    /\ h_to_t = {}
    /\ t_to_h = {}
    /\ shadow = [c \in Cells |-> [dev |-> FALSE, host |-> FALSE]]
    /\ is_on_target = FALSE
    /\ enable_annotations = TRUE
    /\ halted = FALSE
    /\ call = NoCall
    /\ hostHist = [a \in 0 .. (HostSize - 1) |-> NoNode]
    /\ rt = 0
    /\ in_region = FALSE
    /\ toSince = [c \in Cells |-> FALSE]
    /\ conc = NoConc
    /\ run = NoRun
    /\ sa = NoSa
    /\ thr = NoThr
    /\ benign = NoBenign
    /\ \E f \in Functions :
          fn = [name |-> IF f.prefixed THEN "outlined" ELSE "other",
                prefixed |-> f.prefixed, attr |-> f.attr, arbalest |-> f.arbalest,
                insts |-> f.insts, phase |-> "new", i |-> 0, calls |-> {}]

PassFrame ==
    UNCHANGED <<h_to_t, t_to_h, shadow, is_on_target, enable_annotations, halted,
                call, hostHist, rt, in_region, toSince, conc, run, sa, thr, benign>>

(* sanitizeFunction up to the Arbalest part: the early returns, and the    *)
(* conditions under which the instructions are scanned for GEPs            *)
sanitizeFunctionBegin ==
    /\ fn.phase = "new"
    /\ fn' = IF fn.attr # "none" THEN [fn EXCEPT !.phase = "done"]
             ELSE IF fn.arbalest /\ fn.prefixed
             THEN [fn EXCEPT !.phase = "scan", !.i = 1]
             ELSE [fn EXCEPT !.phase = "done"]
    /\ PassFrame

(* the scan: instruction i is handed to instrumentGEP when it is a GEP *)
sanitizeFunctionScan ==
    /\ fn.phase = "scan"
    /\ fn' = IF fn.i > Len(fn.insts) THEN [fn EXCEPT !.phase = "done"]
             ELSE IF fn.insts[fn.i].op = "gep"
             THEN [fn EXCEPT !.i = @ + 1,
                             !.calls = @ \cup instrumentGEP(fn.insts, fn.i)]
             ELSE [fn EXCEPT !.i = @ + 1]
    /\ PassFrame

PassNext ==
    \/ sanitizeFunctionBegin
    \/ sanitizeFunctionScan

SpecPass == PassInit /\ [][PassNext]_vars

-----------------------------------------------------------------------------
(* sanitizeFunction on one function, from the traversal to the value       *)
(* returned.  Here fn holds the function: SanitizeFunction (it has the     *)
(* sanitize_thread attribute), arbalest (ClEnableArbalest), prefixed (its  *)
(* name starts with the outlined-function prefix), its instructions insts  *)
(* in program order, "br" ending a basic block and the end of insts ending *)
(* the last one; the locals of sanitizeFunction (i, the instruction the    *)
(* traversal is at, LocalLoadsAndStores, AllLoadsAndStores,                *)
(* AllLoadsAndStoresForArbalest, AtomicAccesses, HasCalls, Res); and what  *)
(* has been inserted: tsan (instructions with a race-detector callback),   *)
(* arb (Arbalest read/write callbacks per instruction), bound              *)
(* (__arbalest_check_bound calls per load), entryexit; offered counts how  *)
(* often each instruction has been handed to the Arbalest chooser.         *)
(* An instruction is [op, addr, bits, vtable]: addr says what its pointer  *)
(* operand is: "a" a captured object, "const" constant data, "local" an    *)
(* alloca that is not captured, "skip" an address no sanitizer instruments *)
(* (shouldInstrumentReadWriteFromAddress is false), "gep" the result of    *)
(* the nearest GEP before it.                                              *)

ClInstrumentMemoryAccesses == TRUE

ClInstrumentFuncEntryExit == TRUE

ClInstrumentAtomics == TRUE

ClInstrumentReadBeforeWrite == FALSE

SanInstructions ==
    [op : {"load"}, addr : {"a"}, bits : {32, 80}, vtable : {FALSE}]
    \cup [op : {"load"}, addr : {"a"}, bits : {32}, vtable : {TRUE}]
    \cup [op : {"load"}, addr : {"const", "local", "skip", "gep"}, bits : {32},
          vtable : {FALSE}]
    \cup [op : {"store"}, addr : {"a", "local"}, bits : {32}, vtable : {FALSE}]
    \cup [op : {"atomic", "call", "br", "gep"}, addr : {"-"}, bits : {32},
          vtable : {FALSE}]

(* a pointer operand that is the result of a GEP has a GEP before it *)
SanWellFormed(insts) ==
    \A j \in 1 .. Len(insts) :
        insts[j].addr = "gep" => \E k \in 1 .. (j - 1) : insts[k].op = "gep"

SanFunctions ==
    { f \in [SanitizeFunction : BOOLEAN, arbalest : BOOLEAN, prefixed : BOOLEAN,
             insts : UNION {[1 .. n -> SanInstructions] : n \in 1 .. MaxInsts}] :
        SanWellFormed(f.insts) }

getMemoryAccessFuncIndex(TypeSize) ==
    CASE TypeSize = 8 -> 0 [] TypeSize = 16 -> 1 [] TypeSize = 32 -> 2
      [] TypeSize = 64 -> 3 [] TypeSize = 128 -> 4 [] OTHER -> -1

(* Arbalest::chooseInstructionsToInstrument, from element k of Local down *)
RECURSIVE ArbalestChooseFrom(_, _, _, _)
ArbalestChooseFrom(insts, Local, k, All) ==
    IF k = 0 THEN All
    ELSE IF insts[Local[k]].addr = "skip"
         THEN ArbalestChooseFrom(insts, Local, k - 1, All)
         ELSE IF insts[Local[k]].op = "load" /\ insts[Local[k]].addr = "const"
              THEN ArbalestChooseFrom(insts, Local, k - 1, All)
              ELSE ArbalestChooseFrom(insts, Local, k - 1, Append(All, Local[k]))

ArbalestChooseInstructionsToInstrument(insts, Local, All) ==
    [Local |-> Local, All |-> ArbalestChooseFrom(insts, Local, Len(Local), All)]

(* chooseInstructionsToInstrument of the race detector, from element k of  *)
(* Local down; wt is WriteTargets, 0 for an address with no entry          *)
RECURSIVE ChooseFrom(_, _, _, _, _)
ChooseFrom(insts, Local, k, All, wt) ==
    IF k = 0 THEN All
    ELSE LET x == insts[Local[k]]
         IN  IF x.addr = "skip" THEN ChooseFrom(insts, Local, k - 1, All, wt)
             ELSE IF x.op = "load" /\ ~ClInstrumentReadBeforeWrite /\ wt[x.addr] # 0
             THEN ChooseFrom(insts, Local, k - 1,
                             [All EXCEPT ![wt[x.addr]].compound = TRUE], wt)
             ELSE IF x.op = "load" /\ x.addr = "const"
             THEN ChooseFrom(insts, Local, k - 1, All, wt)
             ELSE IF x.addr = "local"
             THEN ChooseFrom(insts, Local, k - 1, All, wt)
             ELSE ChooseFrom(insts, Local, k - 1,
                             Append(All, [inst |-> Local[k], compound |-> FALSE]),
                             IF x.op = "store"
                             THEN [wt EXCEPT ![x.addr] = Len(All) + 1]
                             ELSE wt)

(* chooseInstructionsToInstrument leaving Local as it is *)
chooseInstructionsToInstrumentNoClear(insts, Local, All) ==
    [Local |-> Local,
     All   |-> ChooseFrom(insts, Local, Len(Local), All,
                          [a \in {"a", "const", "local", "skip", "gep"} |-> 0])]

chooseInstructionsToInstrument(insts, Local, All) ==
    [Local |-> <<>>,
     All   |-> ChooseFrom(insts, Local, Len(Local), All,
                          [a \in {"a", "const", "local", "skip", "gep"} |-> 0])]

(* the two choosers as sanitizeFunction calls them, on state f *)
Choose(f) ==
    LET a == IF f.arbalest
             THEN ArbalestChooseInstructionsToInstrument(
                      f.insts, f.LocalLoadsAndStores, f.AllLoadsAndStoresForArbalest)
             ELSE [Local |-> f.LocalLoadsAndStores,
                   All |-> f.AllLoadsAndStoresForArbalest]
         t == chooseInstructionsToInstrument(f.insts, a.Local, f.AllLoadsAndStores)
    IN  [f EXCEPT !.AllLoadsAndStoresForArbalest = a.All,
                  !.AllLoadsAndStores = t.All,
                  !.LocalLoadsAndStores = t.Local,
                  !.offered = [j \in DOMAIN f.offered |->
                                 IF f.arbalest
                                    /\ \E k \in 1 .. Len(f.LocalLoadsAndStores) :
                                          f.LocalLoadsAndStores[k] = j
                                 THEN f.offered[j] + 1
                                 ELSE f.offered[j]]]

(* instrumentLoadOrStore of the race detector: a callback was inserted *)
instrumentLoadOrStore(x) == getMemoryAccessFuncIndex(x.bits) >= 0

instrumentAtomic(x) == getMemoryAccessFuncIndex(x.bits) >= 0

(* Arbalest::instrumentLoadOrStore: the callback inserted (0 or 1) *)
ArbalestInstrumentLoadOrStore(x) ==
    IF getMemoryAccessFuncIndex(x.bits) < 0 THEN 0
    ELSE IF x.vtable THEN 0
    ELSE 1

(* the number of times j occurs in sequence s *)
Occurrences(s, j) == Cardinality({k \in 1 .. Len(s) : s[k] = j})

(* the instrumentation and the return of sanitizeFunction *)
Instrument(f) ==
    LET n      == Len(f.insts)
        tsanLS == IF ClInstrumentMemoryAccesses /\ f.SanitizeFunction
                  THEN {f.AllLoadsAndStores[k].inst :
                          k \in {m \in 1 .. Len(f.AllLoadsAndStores) :
                                   instrumentLoadOrStore(
                                       f.insts[f.AllLoadsAndStores[m].inst])}}
                  ELSE {}
        tsanAt == IF ClInstrumentAtomics
                  THEN {j \in f.AtomicAccesses : instrumentAtomic(f.insts[j])}
                  ELSE {}
        arb    == [j \in 1 .. n |->
                     IF f.arbalest
                     THEN Occurrences(f.AllLoadsAndStoresForArbalest, j)
                             * ArbalestInstrumentLoadOrStore(f.insts[j])
                     ELSE 0]
        bound  == [j \in 1 .. n |->
                     IF f.arbalest /\ f.prefixed
                        /\ f.insts[j].op = "load" /\ f.insts[j].addr = "gep"
                     THEN 1 ELSE 0]
        Res1   == tsanLS # {} \/ tsanAt # {}
        ee     == (Res1 \/ f.HasCalls) /\ ClInstrumentFuncEntryExit
    IN  [f EXCEPT !.phase = "done", !.tsan = tsanLS \cup tsanAt, !.arb = arb,
                  !.bound = bound, !.entryexit = ee, !.Res = Res1 \/ ee]

(* the traversal at instruction i: the instruction is collected, a call    *)
(* runs the choosers, and so does the end of the basic block               *)
Traverse(f) ==
    LET x  == f.insts[f.i]
        f1 == CASE x.op = "atomic" ->
                     [f EXCEPT !.AtomicAccesses = @ \cup {f.i}]
                [] x.op \in {"load", "store"} ->
                     [f EXCEPT !.LocalLoadsAndStores = Append(@, f.i)]
                [] x.op = "call" -> Choose([f EXCEPT !.HasCalls = TRUE])
                [] OTHER -> f
        f2 == IF x.op = "br" \/ f.i = Len(f.insts) THEN Choose(f1) ELSE f1
    IN  IF f.i = Len(f.insts)
        THEN [f2 EXCEPT !.phase = "instrument"]
        ELSE [f2 EXCEPT !.i = @ + 1]

sanitizeFunctionTraverse ==
    /\ fn.phase = "traverse"
    /\ fn' = Traverse(fn)
    /\ PassFrame

sanitizeFunctionInstrument ==
    /\ fn.phase = "instrument"
    /\ fn' = Instrument(fn)
    /\ PassFrame

SanInit ==
    /\ h_to_t = {}
    /\ t_to_h = {}
    /\ shadow = [c \in Cells |-> [dev |-> FALSE, host |-> FALSE]]
    /\ is_on_target = FALSE
    /\ enable_annotations = TRUE
    /\ halted = FALSE
    /\ call = NoCall
    /\ hostHist = [a \in 0 .. (HostSize - 1) |-> NoNode]
    /\ rt = 0
    /\ in_region = FALSE
    /\ toSince = [c \in Cells |-> FALSE]
    /\ conc = NoConc
    /\ run = NoRun
    /\ sa = NoSa
    /\ thr = NoThr
    /\ benign = NoBenign
    /\ \E f \in SanFunctions :
          fn = [name |-> "sanitize", SanitizeFunction |-> f.SanitizeFunction,
                arbalest |-> f.arbalest, prefixed |-> f.prefixed, insts |-> f.insts,
                phase |-> "traverse", i |-> 1,
                LocalLoadsAndStores |-> <<>>, AllLoadsAndStores |-> <<>>,
                AllLoadsAndStoresForArbalest |-> <<>>, AtomicAccesses |-> {},
                HasCalls |-> FALSE, Res |-> FALSE,
                offered |-> [j \in 1 .. Len(f.insts) |-> 0],
                tsan |-> {}, arb |-> [j \in 1 .. Len(f.insts) |-> 0],
                bound |-> [j \in 1 .. Len(f.insts) |-> 0], entryexit |-> FALSE]

SanNext ==
    \/ sanitizeFunctionTraverse
    \/ sanitizeFunctionInstrument

SpecSan == SanInit /\ [][SanNext]_vars

-----------------------------------------------------------------------------

(* The thread state the annotations write.  thr[p] holds, for thread p,    *)
(* the ThreadState fields is_on_target, is_in_runtime,                     *)
(* ignore_reads_and_writes and ignore_sync, and as history the kind of its *)
(* last target-region call (last_region) and runtime call (last_runtime)   *)
(* and the mutex annotations it has opened and not yet closed (open, the   *)
(* innermost last, each with the flag diverted).  call describes the last  *)
(* entry point called: the thread, the name, whether the ScopedAnnotation  *)
(* object was constructed (func_entry) and the value returned.             *)

MaxNest == 1

(* the depths a thread may have when the sequence of calls starts: it may  *)
(* be inside an AnnotateIgnoreReadsBegin and an AnnotateIgnoreSyncBegin    *)
StartDepths == {0, 1}

ThreadIgnoreBegin(t) == [t EXCEPT !.ignore_reads_and_writes = @ + 1]

ThreadIgnoreEnd(t) == [t EXCEPT !.ignore_reads_and_writes = @ - 1]

ThreadIgnoreSyncBegin(t) == [t EXCEPT !.ignore_sync = @ + 1]

ThreadIgnoreSyncEnd(t) == [t EXCEPT !.ignore_sync = @ - 1]

(* the bodies of the entry points, on the state t of the calling thread *)
EnterTargetRegion(t) == [t EXCEPT !.is_on_target = TRUE]

(* ExitTargetRegion leaving the flag as it is *)
ExitTargetRegionKeep(t) == t

ExitTargetRegion(t) == [t EXCEPT !.is_on_target = FALSE]

AnnotateEnterRuntime(t) == [t EXCEPT !.is_in_runtime = TRUE]

AnnotateExitRuntime(t) == [t EXCEPT !.is_in_runtime = FALSE]

tsan_mutex_pre_lock(t) == ThreadIgnoreSyncBegin(ThreadIgnoreBegin(t))

(* __tsan_mutex_post_lock closing the ignore-sync region only *)
tsan_mutex_post_lockSyncOnly(t) == ThreadIgnoreSyncEnd(t)

tsan_mutex_post_lock(t) == ThreadIgnoreEnd(ThreadIgnoreSyncEnd(t))

tsan_mutex_pre_unlock(t) == ThreadIgnoreSyncBegin(ThreadIgnoreBegin(t))

tsan_mutex_post_unlock(t) == ThreadIgnoreEnd(ThreadIgnoreSyncEnd(t))

tsan_mutex_pre_signal(t) == ThreadIgnoreSyncBegin(ThreadIgnoreBegin(t))

tsan_mutex_post_signal(t) == ThreadIgnoreEnd(ThreadIgnoreSyncEnd(t))

tsan_mutex_pre_divert(t) == ThreadIgnoreEnd(ThreadIgnoreSyncEnd(t))

tsan_mutex_post_divert(t) == ThreadIgnoreSyncBegin(ThreadIgnoreBegin(t))

RegionNames == {"AnnotateEnterTargetRegion", "AnnotateExitTargetRegion"}

RuntimeNames == {"AnnotateEnterRuntime", "AnnotateExitRuntime"}

PreNames == {"__tsan_mutex_pre_lock", "__tsan_mutex_pre_unlock", "__tsan_mutex_pre_signal"}

PostNames == {"__tsan_mutex_post_lock", "__tsan_mutex_post_unlock", "__tsan_mutex_post_signal"}

DivertNames == {"__tsan_mutex_pre_divert", "__tsan_mutex_post_divert"}

ScopedNames == RegionNames \cup RuntimeNames \cup PreNames \cup PostNames \cup DivertNames

(* entry points defined without SCOPED_ANNOTATION that have a body *)
UnscopedNames == {"AnnotateArbalestVerboseMode", "AnnotatePrintf"}

Body(name, t) ==
    CASE name = "AnnotateEnterTargetRegion" -> EnterTargetRegion(t)
      [] name = "AnnotateExitTargetRegion"  -> ExitTargetRegion(t)
      [] name = "AnnotateEnterRuntime"      -> AnnotateEnterRuntime(t)
      [] name = "AnnotateExitRuntime"       -> AnnotateExitRuntime(t)
      [] name = "__tsan_mutex_pre_lock"     -> tsan_mutex_pre_lock(t)
      [] name = "__tsan_mutex_post_lock"    -> tsan_mutex_post_lock(t)
      [] name = "__tsan_mutex_pre_unlock"   -> tsan_mutex_pre_unlock(t)
      [] name = "__tsan_mutex_post_unlock"  -> tsan_mutex_post_unlock(t)
      [] name = "__tsan_mutex_pre_signal"   -> tsan_mutex_pre_signal(t)
      [] name = "__tsan_mutex_post_signal"  -> tsan_mutex_post_signal(t)
      [] name = "__tsan_mutex_pre_divert"   -> tsan_mutex_pre_divert(t)
      [] name = "__tsan_mutex_post_divert"  -> tsan_mutex_post_divert(t)

(* the values the entry point can return when its body runs: MutexUnlock   *)
(* gives __tsan_mutex_pre_unlock its result, the others return nothing     *)
Returns(name) == IF name = "__tsan_mutex_pre_unlock" THEN {0, 1} ELSE {0}

(* the mutex operation a pre or post annotation belongs to *)
KindOf(name) ==
    CASE name \in {"__tsan_mutex_pre_lock", "__tsan_mutex_post_lock"}     -> "lock"
      [] name \in {"__tsan_mutex_pre_unlock", "__tsan_mutex_post_unlock"} -> "unlock"
      [] name \in {"__tsan_mutex_pre_signal", "__tsan_mutex_post_signal"} -> "signal"

(* the caller keeps the pairing: a pre_X when no annotation is open or the *)
(* innermost one is diverted, post_X to close the innermost pre_X, and a   *)
(* pre_divert / post_divert pair inside an open pre/post pair              *)
Paired(t, name) ==
    LET n == Len(t.open)
    IN  CASE name \in PreNames ->
                 /\ n < MaxNest
                 /\ (IF n = 0 THEN TRUE ELSE t.open[n].diverted)
          [] name \in PostNames ->
                 /\ n > 0
                 /\ t.open[n].kind = KindOf(name)
                 /\ ~t.open[n].diverted
          [] name = "__tsan_mutex_pre_divert"  -> n > 0 /\ ~t.open[n].diverted
          [] name = "__tsan_mutex_post_divert" -> n > 0 /\ t.open[n].diverted
          [] OTHER -> TRUE

(* the history of the calls thread state t has made *)
Track(t, name) ==
    LET n == Len(t.open)
    IN  CASE name = "AnnotateEnterTargetRegion" -> [t EXCEPT !.last_region = "enter"]
          [] name = "AnnotateExitTargetRegion"  -> [t EXCEPT !.last_region = "exit"]
          [] name = "AnnotateEnterRuntime"      -> [t EXCEPT !.last_runtime = "enter"]
          [] name = "AnnotateExitRuntime"       -> [t EXCEPT !.last_runtime = "exit"]
          [] name \in PreNames ->
                 [t EXCEPT !.open = Append(@, [kind |-> KindOf(name),
                                               diverted |-> FALSE])]
          [] name \in PostNames -> [t EXCEPT !.open = SubSeq(@, 1, n - 1)]
          [] name = "__tsan_mutex_pre_divert"  -> [t EXCEPT !.open[n].diverted = TRUE]
          [] name = "__tsan_mutex_post_divert" -> [t EXCEPT !.open[n].diverted = FALSE]

ThrFrame ==
    UNCHANGED <<h_to_t, t_to_h, shadow, is_on_target, enable_annotations, halted,
                hostHist, rt, in_region, toSince, conc, run, sa, fn, benign>>

(* SCOPED_ANNOTATION_RET running the body whatever enable_annotations is *)
ScopedAnnotationRetNoFlag(p, name) ==
    /\ \E r \in Returns(name) :
          call' = [op |-> "annotation", thread |-> p, name |-> name,
                   func_entry |-> TRUE, ret |-> r]
    /\ thr' = [thr EXCEPT ![p] = Track(Body(name, @), name)]

(* SCOPED_ANNOTATION_RET(typ, ret) followed by the body of the entry point *)
(* and the return: with enable_annotations off the function returns ret,   *)
(* which is 0 for __tsan_mutex_pre_unlock, before cur_thread() is read     *)
ScopedAnnotationRet(p, name) ==
    IF ~enable_annotations
    THEN /\ call' = [op |-> "annotation", thread |-> p, name |-> name,
                     func_entry |-> FALSE, ret |-> 0]
         /\ thr' = [thr EXCEPT ![p] = Track(@, name)]
    ELSE /\ \E r \in Returns(name) :
               call' = [op |-> "annotation", thread |-> p, name |-> name,
                        func_entry |-> TRUE, ret |-> r]
         /\ thr' = [thr EXCEPT ![p] = Track(Body(name, @), name)]

(* thread p calls a scoped entry point *)
ThrScoped(p) ==
    \E name \in ScopedNames :
        /\ ~halted
        /\ Paired(thr[p], name)
        /\ ScopedAnnotationRet(p, name)
        /\ ThrFrame

(* thread p calls AnnotateArbalestVerboseMode or AnnotatePrintf: no macro, *)
(* a body that writes ctx->arbalest_verbose or prints                      *)
ThrUnscoped(p) ==
    \E name \in UnscopedNames :
        /\ ~halted
        /\ call' = [op |-> "annotation", thread |-> p, name |-> name,
                    func_entry |-> FALSE, ret |-> 0]
        /\ UNCHANGED thr
        /\ ThrFrame

(* a thread calls AnnotateMapping *)
ThrMapping ==
    \E optype \in {{ompt_device_mem_flag_alloc, ompt_device_mem_flag_associate},
                   {ompt_device_mem_flag_to}} :
        /\ AnnotateMapping(0, 0, 1, optype)
        /\ UNCHANGED run

ThrInit ==
    /\ h_to_t = {}
    /\ t_to_h = {}
    /\ shadow = [c \in Cells |-> [dev |-> FALSE, host |-> FALSE]]
    /\ is_on_target = FALSE
    /\ enable_annotations \in BOOLEAN
    /\ halted = FALSE
    /\ call = NoCall
    /\ hostHist = [a \in 0 .. (HostSize - 1) |-> NoNode]
    /\ rt = 0
    /\ in_region = FALSE
    /\ toSince = [c \in Cells |-> FALSE]
    /\ conc = NoConc
    /\ run = NoRun
    /\ sa = NoSa
    /\ fn = NoFn
    /\ benign = NoBenign
    /\ \E d \in StartDepths :
          thr = [p \in Threads |->
                   [is_on_target |-> FALSE, is_in_runtime |-> FALSE,
                    ignore_reads_and_writes |-> d, ignore_sync |-> d, start |-> d,
                    last_region |-> "none", last_runtime |-> "none", open |-> <<>>]]

ThrNext ==
    \/ \E p \in Threads : ThrScoped(p)
    \/ \E p \in Threads : ThrUnscoped(p)
    \/ ThrMapping

SpecThr == ThrInit /\ [][ThrNext]_vars

-----------------------------------------------------------------------------

(* The list of expected (benign) races.  benign holds dyn_ann_ctx->benign: *)
(* the list head is node 0, the ExpectRace objects allocated so far are    *)
(* the nodes 1 .. n, next and prev are the pointers of the head and the    *)
(* nodes, race[i] the fields addr, size, hitcount and addcount of node i;  *)
(* made counts, as history, the annotations made with each (addr, size).   *)
(* BenignRaceImpl holds dyn_ann_ctx->mtx as a writer and IsExpectedReport  *)
(* holds it as a reader whose only write is an atomic add, so each call is *)
(* one step.                                                               *)

MaxList == 2

MaxCount == 2

BenignPairs == (0 .. (HostSize - 1)) \X (0 .. MaxBytes)

(* InitList *)
InitList == [n |-> 0, next |-> [i \in {0} |-> 0], prev |-> [i \in {0} |-> 0],
             race |-> <<>>]

(* the nodes in the order the loops visit them: from list->next along next *)
(* until the head is reached                                               *)
RECURSIVE WalkFrom(_, _, _)
WalkFrom(list, id, fuel) ==
    IF id = 0 \/ fuel = 0 THEN <<>>
    ELSE <<id>> \o WalkFrom(list, list.next[id], fuel - 1)

Walk(list) == WalkFrom(list, list.next[0], list.n)

(* the first node of the walk that lies in S, 0 (no node) when none does *)
FirstOf(seq, S) ==
    IF \E i \in 1 .. Len(seq) : seq[i] \in S
    THEN seq[CHOOSE i \in 1 .. Len(seq) :
                 /\ seq[i] \in S
                 /\ \A j \in 1 .. (i - 1) : seq[j] \notin S]
    ELSE 0

(* a new node linked in behind the head, with the pointers given *)
LinkNew(list, addr, size, nextOfNew, prevOfOld) ==
    LET new == list.n + 1
        old == list.next[0]
    IN  [n    |-> new,
         next |-> [i \in 0 .. new |->
                     IF i = new THEN nextOfNew ELSE IF i = 0 THEN new ELSE list.next[i]],
         prev |-> [i \in 0 .. new |->
                     IF i = new THEN 0 ELSE IF i = old THEN prevOfOld ELSE list.prev[i]],
         race |-> Append(list.race, [addr |-> addr, size |-> size,
                                     hitcount |-> 0, addcount |-> 1])]

(* AddExpectRace allocating a node for every annotation *)
AddExpectRaceNoLookup(list, addr, size) ==
    LinkNew(list, addr, size, list.next[0], list.n + 1)

(* AddExpectRace leaving the prev pointer of the old first node as it is *)
AddExpectRaceNoBackLink(list, addr, size) ==
    LET race == FirstOf(Walk(list),
                        {i \in 1 .. list.n : /\ list.race[i].addr = addr
                                             /\ list.race[i].size = size})
    IN  IF race # 0
        THEN [list EXCEPT !.race[race].addcount = @ + 1]
        ELSE LinkNew(list, addr, size, list.next[0], list.prev[list.next[0]])

AddExpectRace(list, addr, size) ==
    LET race == FirstOf(Walk(list),
                        {i \in 1 .. list.n : /\ list.race[i].addr = addr
                                             /\ list.race[i].size = size})
    IN  IF race # 0
        THEN [list EXCEPT !.race[race].addcount = @ + 1]
        ELSE LinkNew(list, addr, size, list.next[0], list.n + 1)

(* FindRace matching on the first address only *)
FindRacePoint(list, addr, size) ==
    FirstOf(Walk(list),
            {i \in 1 .. list.n :
                 /\ list.race[i].addr <= addr
                 /\ addr < list.race[i].addr + list.race[i].size})

FindRace(list, addr, size) ==
    FirstOf(Walk(list),
            {i \in 1 .. list.n :
                 LET maxbegin == Max(list.race[i].addr, addr)
                     minend   == Min(list.race[i].addr + list.race[i].size, addr + size)
                 IN  maxbegin < minend})

(* CheckContains: the list afterwards and the value returned *)
CheckContains(list, addr, size) ==
    LET race == FindRace(list, addr, size)
    IN  IF race = 0
        THEN [list |-> list, ret |-> FALSE]
        ELSE [list |-> [list EXCEPT !.race[race].hitcount = @ + 1], ret |-> TRUE]

BenignFrame ==
    UNCHANGED <<h_to_t, t_to_h, shadow, is_on_target, enable_annotations, halted,
                hostHist, rt, in_region, toSince, conc, run, sa, fn, thr>>

BenignRaceImpl(mem, size) ==
    /\ benign.made[<<mem, size>>] < MaxCount
    /\ (benign.made[<<mem, size>>] > 0 \/ benign.list.n < MaxList)
    /\ benign' = [list |-> AddExpectRace(benign.list, mem, size),
                  made |-> [benign.made EXCEPT ![<<mem, size>>] = @ + 1]]
    /\ call' = [op |-> "benign", addr |-> mem, size |-> size]
    /\ BenignFrame

AnnotateBenignRaceSized ==
    \E mem \in 0 .. (HostSize - 1), size \in 0 .. MaxBytes : BenignRaceImpl(mem, size)

AnnotateBenignRace ==
    \E mem \in 0 .. (HostSize - 1) : BenignRaceImpl(mem, 1)

IsExpectedReport ==
    \E addr \in 0 .. (HostSize - 1), size \in 1 .. MaxBytes :
        /\ \A i \in 1 .. benign.list.n : benign.list.race[i].hitcount < MaxCount
        /\ \E r \in {CheckContains(benign.list, addr, size)} :
              /\ benign' = [benign EXCEPT !.list = r.list]
              /\ call' = [op |-> "expected", addr |-> addr, size |-> size,
                          ret |-> r.ret]
        /\ BenignFrame

BenignInit ==
    /\ h_to_t = {}
    /\ t_to_h = {}
    /\ shadow = [c \in Cells |-> [dev |-> FALSE, host |-> FALSE]]
    /\ is_on_target = FALSE
    /\ enable_annotations = TRUE
    /\ halted = FALSE
    /\ call = NoCall
    /\ hostHist = [a \in 0 .. (HostSize - 1) |-> NoNode]
    /\ rt = 0
    /\ in_region = FALSE
    /\ toSince = [c \in Cells |-> FALSE]
    /\ conc = NoConc
    /\ run = NoRun
    /\ sa = NoSa
    /\ fn = NoFn
    /\ thr = NoThr
    /\ benign = [list |-> InitList, made |-> [pr \in BenignPairs |-> 0]]

BenignNext ==
    \/ AnnotateBenignRaceSized
    \/ AnnotateBenignRace
    \/ IsExpectedReport

SpecBenign == BenignInit /\ [][BenignNext]_vars

-----------------------------------------------------------------------------

(* Properties.  The record `call` describes the last call; for a lifecycle *)
(* call the pair (unprimed state, primed state) of its step is the state   *)
(* before and after the call.                                              *)

Ran(c) == c.op = "mapping" /\ c.diag # "disabled"

HostOf(c) == Interval(c.src, c.bytes)

TargetOf(c) == Interval(c.dest, c.bytes)

HostInAppMem(c) == IsAppMem(c.src) /\ IsAppMem(c.src + c.bytes - 1)

TraceSet(c) == {c.trace[i] : i \in 1 .. Len(c.trace)}

HostCells(c) == CellsOf(c.src, c.bytes)

(* the step is a lifecycle call that ran, and call' describes it (the only *)
(* other steps that leave call' a lifecycle record flip is_on_target)      *)
MappingStep == Ran(call') /\ is_on_target' = is_on_target

(* the position the design gives each step *)
Rank(f) ==
    CASE f = "alloc" -> 1 [] f = "associate" -> 2 [] f = "to" -> 3
      [] f = "from" -> 4 [] f = "disassociate" -> 5 [] f = "release" -> 6

(* C1: within one AnnotateMapping call the steps its flags select run in   *)
(* the order Alloc, Associate, To, From, Disassociate, Release, and a call *)
(* that completes has run exactly the selected steps.  So a call carrying  *)
(* Associate and To for a device interval that overlapped no record passes *)
(* the To lookup and marks the cells, and a call carrying To|Disassociate  *)
(* or From|Disassociate for a registered device interval updates the       *)
(* shadow and then removes the device record.                              *)
C1_StepOrder ==
    [][ MappingStep =>
          /\ \A i, j \in 1 .. Len(call'.trace) :
                i < j => Rank(call'.trace[i]) < Rank(call'.trace[j])
          /\ TraceSet(call') \subseteq call'.optype
          /\ call'.diag = "ok" => TraceSet(call') = call'.optype
          /\ ( /\ {"associate", "to"} \subseteq call'.optype
               /\ HostInAppMem(call')
               /\ InsertOk(t_to_h, TargetOf(call')) )
             => /\ call'.diag = "ok"
                /\ \A c \in HostCells(call') : shadow'[c].dev
          /\ ( /\ "disassociate" \in call'.optype
               /\ "associate" \notin call'.optype
               /\ HostInAppMem(call')
               /\ find(t_to_h, TargetOf(call')) # {} )
             => /\ call'.diag = "ok"
                /\ "to" \in call'.optype => \A c \in HostCells(call') : shadow'[c].dev
                /\ "from" \in call'.optype => \A c \in HostCells(call') : shadow'[c].host
                /\ find(t_to_h', TargetOf(call')) = {}
      ]_vars

C1_Witness ==
    /\ call.op = "mapping"
    /\ call.optype = Flags
    /\ call.diag = "ok"
    /\ call.trace = <<"alloc", "associate", "to", "from", "disassociate", "release">>
    /\ \A c \in HostCells(call) : shadow[c].dev /\ shadow[c].host
    /\ find(t_to_h, TargetOf(call)) = {}

C3_DeviceConflictFatal ==
    [][ ( /\ MappingStep
          /\ "associate" \in call'.optype
          /\ HostInAppMem(call')
          /\ ~InsertOk(t_to_h, TargetOf(call')) )
        => /\ call'.diag = "associate"
           /\ halted'
           /\ t_to_h' = t_to_h
      ]_vars

C3_Witness ==
    /\ call.op = "mapping"
    /\ call.diag = "associate"
    /\ halted
    /\ \E x \in t_to_h : /\ Overlap(x.interval, TargetOf(call))
                         /\ x # Node(TargetOf(call), MapInfo(call.src, call.bytes))

(* C4: a lifecycle call that ends in a fatal diagnostic leaves both stores *)
(* and the shadow exactly as they were before the call.                    *)
C4_FailedCallChangesNothing ==
    [][ (MappingStep /\ call'.diag # "ok")
        => /\ h_to_t' = h_to_t
           /\ t_to_h' = t_to_h
           /\ shadow' = shadow
      ]_vars

(* C5: a Disassociate event for a device interval with no record in the    *)
(* device store ends in a fatal diagnostic and changes neither store.      *)
C5_DisassociateUnmappedFatal ==
    [][ ( /\ MappingStep
          /\ "disassociate" \in call'.optype
          /\ "associate" \notin call'.optype
          /\ HostInAppMem(call')
          /\ find(t_to_h, TargetOf(call')) = {} )
        => /\ halted'
           /\ call'.diag \in {"to", "from", "disassociate"}
           /\ (call'.optype \cap {"to", "from"} = {}) => call'.diag = "disassociate"
           /\ h_to_t' = h_to_t
           /\ t_to_h' = t_to_h
      ]_vars

C5_Witness ==
    /\ call.op = "mapping"
    /\ "disassociate" \in call.optype
    /\ call.diag = "disassociate"
    /\ halted
    /\ t_to_h # {}

(* C6: once Associate(H,D,n), To(H,D,n), From(H,D,n), Disassociate(D) have  *)
(* run, from a registry with no record for H or D, the host store has no   *)
(* record for an address of H and the device store none for an address of  *)
(* D; and once Release has followed, no cell of the range holds validity   *)
(* state.                                                                  *)
C6_RoundTripLeavesNothing ==
    /\ rt >= 4 => /\ InsertOk(h_to_t, HostOf(call))
                  /\ InsertOk(t_to_h, TargetOf(call))
    /\ rt = 5 => \A c \in HostCells(call) : ~shadow[c].dev /\ ~shadow[c].host

(* C7: after an Associate step of a call without To every cell of the      *)
(* mapped range is not device-valid, whatever it was before; when the call *)
(* also carries To the cells end device-valid.                             *)
C7_AssociateResetsDevice ==
    ( /\ Ran(call)
      /\ call.diag = "ok"
      /\ "associate" \in call.optype )
    => \A c \in HostCells(call) : shadow[c].dev = ("to" \in call.optype)

C7_Witness ==
    /\ call.op = "mapping"
    /\ call.optype = {"alloc", "associate"}
    /\ call.diag = "ok"
    /\ \E c \in HostCells(call) : shadow[c].host /\ ~shadow[c].dev

(* the step is a load on the target, the first call after a lifecycle call *)
(* that completed, and it lies inside the device interval of that call     *)
ReadAfterMapping ==
    /\ Ran(call)
    /\ call.diag = "ok"
    /\ call'.op = "read"
    /\ call'.on_target
    /\ call.dest <= call'.addr
    /\ call'.addr + call'.size <= call.dest + call.bytes

(* the device record the To lookup of the last call found covers the whole *)
(* device interval of the call and has the host range of the call as its   *)
(* counterpart                                                             *)
ToMatchesRecord ==
    \E x \in find(t_to_h, TargetOf(call)) :
        /\ call.dest + call.bytes <= x.interval.right_end
        /\ x.info.start + (call.dest - x.interval.left_end) = call.src

(* C8: a load on the target from a device interval that has just been      *)
(* associated with flags Alloc|Associate, before any To, reports exactly   *)
(* one violation for each cell it accesses; a load from cells a To has     *)
(* just covered reports none.                                              *)
C8_FreshMappingReads ==
    [][ ReadAfterMapping =>
          LET cells == CellsOf(call.src + (call'.addr - call.dest), call'.size)
          IN  /\ call.optype = {"alloc", "associate"}
                    => call'.report = [c \in cells |-> 1]
              /\ ( /\ "to" \in call.optype
                   /\ "disassociate" \notin call.optype
                   /\ ToMatchesRecord )
                    => call'.report = [c \in cells |-> 0]
      ]_vars

(* C8, "before any To" and "after a To": what a load on the target reports *)
(* for a cell is the device bit of the cell; a lifecycle call that makes   *)
(* no To step sets the device bit of no cell, and one that makes no        *)
(* Associate step clears the device bit of no cell.                        *)
C8_OnlyToValidates ==
    [][ /\ (call'.op = "read" /\ call'.on_target)
            => \A c \in DOMAIN call'.report :
                  call'.report[c] = IF shadow[c].dev THEN 0 ELSE 1
        /\ (MappingStep /\ "to" \notin TraceSet(call'))
            => \A c \in Cells : shadow'[c].dev => shadow[c].dev
        /\ (MappingStep /\ "associate" \notin TraceSet(call'))
            => \A c \in Cells : shadow[c].dev => shadow'[c].dev
      ]_vars

C9_ToMarksRange ==
    [][ (MappingStep /\ "to" \in TraceSet(call')) =>
          LET found == IF "associate" \in call'.optype
                       THEN InsertOk(t_to_h, TargetOf(call'))
                       ELSE find(t_to_h, TargetOf(call')) # {}
          IN  /\ (call'.diag = "to") = ~found
              /\ ~found => halted' /\ shadow' = shadow
              /\ found => /\ call'.diag = "ok"
                          /\ \A c \in HostCells(call') : shadow'[c].dev
                          /\ \A c \in Cells \ HostCells(call') : shadow'[c] = shadow[c]
      ]_vars

C9_Witness ==
    /\ call.op = "mapping"
    /\ call.optype = {"to"}
    /\ call.diag = "ok"
    /\ \A c \in HostCells(call) : shadow[c].dev
    /\ \E c \in Cells \ HostCells(call) : ~shadow[c].dev

(* C10: a From step succeeds only when the device interval has a record in *)
(* the device store; otherwise the fatal diagnostic is raised and no cell  *)
(* is marked.  On success every cell of the range of the event is          *)
(* host-valid, its device bit is as it was (in a call without Associate    *)
(* and To), and the cells outside the range are unchanged.                 *)
C10_FromMarksRange ==
    [][ (MappingStep /\ "from" \in TraceSet(call')) =>
          LET found == IF "associate" \in call'.optype
                       THEN InsertOk(t_to_h, TargetOf(call'))
                       ELSE find(t_to_h, TargetOf(call')) # {}
          IN  /\ (call'.diag = "from") = ~found
              /\ ~found => halted' /\ shadow' = shadow
              /\ found => /\ call'.diag = "ok"
                          /\ \A c \in HostCells(call') : shadow'[c].host
                          /\ (call'.optype \cap {"associate", "to"} = {})
                                => \A c \in HostCells(call') :
                                      shadow'[c].dev = shadow[c].dev
                          /\ ("to" \in call'.optype)
                                => \A c \in HostCells(call') : shadow'[c].dev
                          /\ \A c \in Cells \ HostCells(call') : shadow'[c] = shadow[c]
      ]_vars

C10_Witness ==
    /\ call.op = "mapping"
    /\ call.optype = {"from"}
    /\ call.diag = "ok"
    /\ \A c \in HostCells(call) : shadow[c].host /\ ~shadow[c].dev
    /\ \E c \in Cells \ HostCells(call) : ~shadow[c].host

(* C11: a Disassociate that succeeds on a device interval D covered by a   *)
(* record of the device store removes exactly that record: afterwards no   *)
(* address of D has a device record, every other device record is as it    *)
(* was, and the host store is as it was.                                   *)
C11_DisassociateRemovesOne ==
    [][ ( /\ MappingStep
          /\ "disassociate" \in TraceSet(call')
          /\ call'.diag = "ok"
          /\ \E x \in t_to_h :
                /\ x.interval.left_end <= call'.dest
                /\ call'.dest + call'.bytes <= x.interval.right_end )
        => /\ \A a \in call'.dest .. (call'.dest + call'.bytes - 1) :
                 find(t_to_h', Interval(a, 1)) = {}
           /\ \E x \in t_to_h :
                 /\ Covers(x.interval, call'.dest)
                 /\ t_to_h' = t_to_h \ {x}
           /\ h_to_t' = h_to_t
      ]_vars

C11_Witness ==
    /\ call.op = "mapping"
    /\ call.optype = {"disassociate"}
    /\ call.diag = "ok"
    /\ find(t_to_h, TargetOf(call)) = {}
    /\ t_to_h # {}
    /\ \E x \in h_to_t : x.info.start = call.dest

(* the four validity states of a cell *)
VsmState(v) ==
    CASE ~v.dev /\ ~v.host -> "Uninitialized"
      [] v.dev /\ ~v.host  -> "DeviceOnly"
      [] ~v.dev /\ v.host  -> "HostOnly"
      [] v.dev /\ v.host   -> "Consistent"

AfterTo(q) ==
    CASE q = "Uninitialized" -> "DeviceOnly"
      [] q = "HostOnly"      -> "Consistent"
      [] q = "DeviceOnly"    -> "DeviceOnly"
      [] q = "Consistent"    -> "Consistent"

AfterFrom(q) ==
    CASE q = "Uninitialized" -> "HostOnly"
      [] q = "DeviceOnly"    -> "Consistent"
      [] q = "HostOnly"      -> "HostOnly"
      [] q = "Consistent"    -> "Consistent"

(* C12: a To event takes every cell of its range from Uninitialized to     *)
(* DeviceOnly and from HostOnly to Consistent and leaves DeviceOnly and    *)
(* Consistent as they are; a From event takes Uninitialized to HostOnly    *)
(* and DeviceOnly to Consistent and leaves HostOnly and Consistent as they *)
(* are.  To never touches the host bit and From never the device bit.      *)
C12_ToFromTransitions ==
    [][ (MappingStep /\ call'.diag = "ok") =>
          /\ call'.optype = {"to"} =>
                \A c \in HostCells(call') :
                    /\ VsmState(shadow'[c]) = AfterTo(VsmState(shadow[c]))
                    /\ shadow'[c].host = shadow[c].host
          /\ call'.optype = {"from"} =>
                \A c \in HostCells(call') :
                    /\ VsmState(shadow'[c]) = AfterFrom(VsmState(shadow[c]))
                    /\ shadow'[c].dev = shadow[c].dev
          /\ call'.optype = {"to", "disassociate"} =>
                \A c \in HostCells(call') :
                    VsmState(shadow'[c]) = AfterTo(VsmState(shadow[c]))
          /\ call'.optype = {"from", "disassociate"} =>
                \A c \in HostCells(call') :
                    VsmState(shadow'[c]) = AfterFrom(VsmState(shadow[c]))
      ]_vars

C12_Witness ==
    /\ call.op = "mapping"
    /\ call.optype = {"to"}
    /\ call.diag = "ok"
    /\ \E c \in HostCells(call) : VsmState(shadow[c]) = "Consistent"
    /\ \E c \in Cells : VsmState(shadow[c]) = "HostOnly"

(* C13: after a lifecycle call that carries Alloc and neither To nor From  *)
(* every cell of the interval is Uninitialized, whatever state the cell    *)
(* had before the call.                                                    *)
C13_AllocUninitialized ==
    [][ ( /\ MappingStep
          /\ call'.diag = "ok"
          /\ "alloc" \in TraceSet(call')
          /\ call'.optype \cap {"to", "from"} = {} )
        => \A c \in HostCells(call') : VsmState(shadow'[c]) = "Uninitialized"
      ]_vars

(* C14: after a lifecycle call that has made the Release step no cell of   *)
(* the interval keeps a validity bit set by an earlier To or From.         *)
C14_ReleaseDestroysCells ==
    [][ ( /\ MappingStep
          /\ call'.diag = "ok"
          /\ "release" \in TraceSet(call') )
        => \A c \in HostCells(call') : ~shadow'[c].dev /\ ~shadow'[c].host
      ]_vars

(* the step is a load, and call' describes it *)
ReadStep ==
    /\ call'.op = "read"
    /\ is_on_target' = is_on_target
    /\ in_region' = in_region

(* the cells a load of [addr, addr+size) covers: on the host the cells of  *)
(* the range, on the target the cells of the host counterpart given by the *)
(* device record over addr                                                 *)
CoveredCells(c) ==
    IF in_region
    THEN UNION { CellsOf(x.info.start + (c.addr - x.interval.left_end), c.size) :
                    x \in {y \in t_to_h : Covers(y.interval, c.addr)} }
    ELSE CellsOf(c.addr, c.size)

(* C15: a load reports a data-inconsistency violation if and only if at    *)
(* least one cell it covers is invalid for the side of the access: not     *)
(* device-valid when the thread is inside a target region, not host-valid  *)
(* when it is on the host; a load of an Uninitialized cell always reports. *)
C15_ReportIffInvalid ==
    [][ ReadStep =>
          /\ call'.on_target = in_region
          /\ DOMAIN call'.report = CoveredCells(call')
          /\ (\E c \in DOMAIN call'.report : call'.report[c] > 0)
                <=> (\E c \in CoveredCells(call') :
                        IF in_region THEN ~shadow[c].dev ELSE ~shadow[c].host)
          /\ \A c \in CoveredCells(call') :
                VsmState(shadow[c]) = "Uninitialized" => call'.report[c] > 0
      ]_vars

C15_Witness ==
    /\ call.op = "read"
    /\ ~call.on_target
    /\ ~in_region
    /\ \E c \in DOMAIN call.report : call.report[c] = 1 /\ shadow[c].dev
    /\ \E c \in DOMAIN call.report : call.report[c] = 0

(* the step is a load or a bound check, and call' describes it *)
CheckStep ==
    /\ call'.op \in {"read", "bound"}
    /\ is_on_target' = is_on_target
    /\ in_region' = in_region

C17_BoundHalfOpen ==
    [][ (CheckStep /\ call'.op = "bound") =>
          \A x \in (IF in_region THEN t_to_h ELSE h_to_t) :
              x.interval.left_end = call'.base =>
                LET size == x.info.size
                IN  /\ (call'.report = 1)
                          <=> ~( call'.base <= call'.derived
                                 /\ call'.derived + call'.size <= call'.base + size )
                    /\ (call'.derived = call'.base + size) => call'.report = 1
                    /\ (call'.derived = call'.base + size - 1 /\ call'.size = 1)
                          => call'.report = 0
      ]_vars

C17_Witness ==
    /\ call.op = "bound"
    /\ call.report = 1
    /\ \E x \in (IF call.on_target THEN t_to_h ELSE h_to_t) :
            /\ x.interval.left_end = call.base
            /\ call.derived = call.base + x.info.size
            /\ call.size = x.info.size

C17_WitnessInside ==
    /\ call.op = "bound"
    /\ call.report = 0
    /\ \E x \in (IF call.on_target THEN t_to_h ELSE h_to_t) :
            /\ x.interval.left_end = call.base
            /\ call.derived = call.base + x.info.size - 1
            /\ call.size = 1

(* C18: validity is tracked per cell.  A load on the target reports, for   *)
(* each cell it covers, nothing when a To has covered the cell since the   *)
(* last Associate without To over it, and one violation when none has: so  *)
(* of two cells of one mapping of which only the first received a To, the  *)
(* second is reported and the first is not.                                *)
C18_PerCellValidity ==
    [][ (ReadStep /\ call'.on_target) =>
          \A c \in DOMAIN call'.report :
              call'.report[c] = IF toSince[c] THEN 0 ELSE 1
      ]_vars

C18_Witness ==
    /\ call.op = "read"
    /\ call.on_target
    /\ \E c1, c2 \in DOMAIN call.report :
            /\ toSince[c1] /\ call.report[c1] = 0
            /\ ~toSince[c2] /\ call.report[c2] = 1
    /\ \E x \in t_to_h :
            /\ x.interval.left_end = call.addr
            /\ x.info.size = call.size

(* C19: violations are advisory.  A load or a bound check that reports    *)
(* leaves the tracker running and its state as it was, and the lifecycle   *)
(* call that follows a reported violation is processed as the dispatcher   *)
(* processes it in any state: its outcome is that of AnnotateMapping on    *)
(* the stores and the shadow it found.                                     *)
C19_ViolationsAdvisory ==
    [][ /\ (CheckStep /\ Reported(call'))
            => /\ ~halted'
               /\ h_to_t' = h_to_t /\ t_to_h' = t_to_h /\ shadow' = shadow
               /\ enable_annotations' = enable_annotations
        /\ (Reported(call) /\ MappingStep)
            => \E r \in {MappingResult(h_to_t, t_to_h, shadow, call'.src,
                                        call'.dest, call'.bytes, call'.optype)} :
                  /\ h_to_t' = r.h /\ t_to_h' = r.t /\ shadow' = r.sh
                  /\ call'.diag = r.diag /\ call'.trace = r.trace
                  /\ halted' = (r.diag # "ok")
      ]_vars

C19_Witness ==
    /\ call.op = "bound"
    /\ call.report = 1
    /\ ~halted
    /\ \E c \in Cells : shadow[c].dev
    /\ ENABLED Mapping

(* the two calls run one after the other, p first, both to completion,     *)
(* leave the stores and the shadow as conc has them                        *)
SerialGives(c, p, q) ==
    \E r1 \in {MappingResult(c.h0, c.t0, c.sh0, c.th[p].src, c.th[p].dest,
                              c.th[p].bytes, c.th[p].optype)} :
        /\ r1.diag = "ok"
        /\ \E r2 \in {MappingResult(r1.h, r1.t, r1.sh, c.th[q].src, c.th[q].dest,
                                     c.th[q].bytes, c.th[q].optype)} :
              /\ r2.diag = "ok"
              /\ r2.h = c.h /\ r2.t = c.t /\ r2.sh = c.sh

(* C20: when two threads have each completed an AnnotateMapping call, the  *)
(* stores and the shadow are what running the two calls one after the      *)
(* other, in one of the two orders, produces.                              *)
C20_Serializable ==
    ( /\ ~conc.halted
      /\ \A p \in Threads : ConcLabels[conc.th[p].pc] = "done" )
    => SerialGives(conc, 1, 2) \/ SerialGives(conc, 2, 1)


-----------------------------------------------------------------------------
(* Properties of the runtime's event sequences (SpecRuntime) *)

(* the encountering thread makes a load or a bound check after the         *)
(* synchronization point of construct run.k                                *)
RtSyncedCheck ==
    /\ run.mpc = "synced"
    /\ run' = run
    /\ call'.op \in {"read", "bound"}
    /\ is_on_target' = is_on_target

(* what the events delivered up to the end of construct k have done to     *)
(* variable v                                                              *)
RtState(r, v) ==
    IF r.variant = "global"
    THEN (IF v = 1 THEN "mapped" ELSE IF r.k = 1 THEN "never" ELSE "unmapped")
    ELSE (IF r.k = 3 THEN "unmapped" ELSE "mapped")

InRange(a, n, start, bytes) == start <= a /\ a + n <= start + bytes

(* C21: a lifecycle event issued by a target task, nowait or not, is       *)
(* observed by every load and bound check the encountering thread makes    *)
(* after the synchronization point that follows the construct (the         *)
(* taskwait, or the return of the construct).  After the construct that    *)
(* maps a variable a device load inside its device range finds the record  *)
(* and reads valid cells (Associate and To observed) and a bound check on  *)
(* its device base reports exactly the accesses that leave the range;      *)
(* after the construct that unmaps it a host load inside its host range    *)
(* reads valid cells (From observed) and a device load in its former       *)
(* device range finds no record (Disassociate observed).                   *)
C21_SyncedChecksObserve ==
    [][ RtSyncedCheck =>
          \A v \in DOMAIN run.var :
             \E x \in {run.var[v]}, c \in {call'} :
                /\ (RtState(run, v) = "mapped" /\ c.on_target)
                     => /\ (c.op = "read" /\ InRange(c.addr, c.size, x.dest, x.bytes))
                            => c.report =
                                 [y \in CellsOf(x.src + (c.addr - x.dest), c.size)
                                      |-> 0]
                        /\ (c.op = "bound" /\ InRange(c.base, 1, x.dest, x.bytes))
                            => c.report =
                                 (IF InRange(c.derived, c.size, x.dest, x.bytes)
                                  THEN 0 ELSE 1)
                /\ (RtState(run, v) = "unmapped" /\ c.op = "read")
                     => /\ (~c.on_target /\ InRange(c.addr, c.size, x.src, x.bytes))
                            => c.report = [y \in CellsOf(c.addr, c.size) |-> 0]
                        /\ ( /\ c.on_target
                             /\ InRange(c.addr, c.size, x.dest, x.bytes)
                             /\ \A w \in DOMAIN run.var :
                                   RtState(run, w) = "mapped"
                                     => ~Covers(Interval(run.var[w].dest,
                                                         run.var[w].bytes), c.addr) )
                            => DOMAIN c.report = {}
    ]_vars

(* a device load of the whole two-byte variable after the taskwait of the  *)
(* nowait construct that mapped it                                          *)
C21_Witness ==
    /\ run.variant = "async"
    /\ run.mpc = "synced"
    /\ run.k = 1
    /\ run.var[1].bytes = 2
    /\ call.op = "read"
    /\ call.on_target
    /\ call.addr = run.var[1].dest
    /\ call.size = 2
    /\ \A c \in DOMAIN call.report : call.report[c] = 0
    /\ Cardinality(DOMAIN call.report) = 2

(* the transfers to (from) the device completed among the first i events   *)
TransferEnds(log, i, dir) ==
    Cardinality({j \in 1 .. i : /\ log[j].e \in {"data_op", "data_op_emi_end"}
                                /\ log[j].f = {dir}})

(* the device_mem events with the flag among the first i events *)
DeviceMemWith(log, i, flag) ==
    Cardinality({j \in 1 .. i : log[j].e = "device_mem" /\ flag \in log[j].f})

(* C22: the tracker receives a To (From) event only after the physical     *)
(* transfer has completed: whenever a device_mem event with the flag to    *)
(* (from) is delivered, the end of a transfer to (from) the device has     *)
(* been delivered for it and for every such event before it.               *)
C22_TransferPrecedesEvent ==
    \A i \in 1 .. Len(run.log) :
        /\ (run.log[i].e = "device_mem" /\ "to" \in run.log[i].f)
             => TransferEnds(run.log, i, "transfer_to_device")
                  >= DeviceMemWith(run.log, i, "to")
        /\ (run.log[i].e = "device_mem" /\ "from" \in run.log[i].f)
             => TransferEnds(run.log, i, "transfer_from_device")
                  >= DeviceMemWith(run.log, i, "from")

(* the device_mem events delivered for variable v *)
DeviceMemOf(log, v) ==
    SelectSeq(log, LAMBDA e : e.e = "device_mem" /\ e.v = v)

(* the flags f follow the flags g of the variable's previous device_mem    *)
(* event in the order associate, to, from, disassociate: a variable is     *)
(* associated only when it is not, and copied and disassociated only when  *)
(* it is; no copy to the device follows a copy from it                     *)
FollowsInOrder(g, f) ==
    /\ ("associate" \in f) = ("disassociate" \in g)
    /\ ("alloc" \in f) = ("associate" \in f)
    /\ ("release" \in f) = ("disassociate" \in f)
    /\ ("to" \in f /\ "associate" \notin f) => "from" \notin g

(* C27: per variable the runtime delivers alloc|associate, to, from and    *)
(* release|disassociate in this order, no second associate before the      *)
(* disassociate (the nested target region that maps the present variable   *)
(* again delivers no device_mem event), every to and from between the      *)
(* associate and the disassociate; and no AnnotateMapping call made for    *)
(* these events raises an assertion.                                       *)
C27_RuntimeSequencesPass ==
    /\ \A v \in DOMAIN run.var :
          \E dm \in {DeviceMemOf(run.log, v)} :
             \A i \in 1 .. Len(dm) :
                FollowsInOrder(IF i = 1 THEN {"disassociate"} ELSE dm[i - 1].f,
                               dm[i].f)
    /\ ~halted
    /\ call.op = "mapping" => call.diag = "ok"

(* the program runs its constructs a second time and the variable is       *)
(* associated again, at another device address, over the host record its   *)
(* first disassociation left                                               *)
C27_Witness ==
    /\ run.round = 2
    /\ call.op = "mapping"
    /\ call.optype = {"alloc", "associate"}
    /\ call.diag = "ok"
    /\ \E i \in 1 .. Len(run.log) :
          /\ run.log[i].e = "device_mem"
          /\ "disassociate" \in run.log[i].f
    /\ \E x \in h_to_t : x.interval.left_end = call.src /\ x.info.start = call.dest
    /\ run.var[VarOf(run.variant, run.k)].dest = call.dest
    /\ \E a \in 0 .. (HostSize - 1) :
          hostHist[a] # NoNode /\ hostHist[a].info.start = call.dest

-----------------------------------------------------------------------------
(* Properties of the registry pair *)

(* thread p executes the statement it is at *)
ThreadRuns(p) ==
    /\ ~conc.halted
    /\ ConcLabels[conc.th[p].pc] # "done"
    /\ conc' = ConcStep(conc, p)

(* C23: whenever a statement of an Associate inserts (H, {D, n}) into the  *)
(* host store, the device store holds (D, {H, n}) at the time of that      *)
(* insertion; and when the Associate has passed its assertion both records *)
(* are present.                                                            *)
C23_DeviceRecordAtInsertion ==
    [][ \A p \in Threads :
          ThreadRuns(p) =>
            \E th \in {conc.th[p]} :
               \E nh \in {Node(Interval(th.src, th.bytes), MapInfo(th.dest, th.bytes))},
                  nt \in {Node(Interval(th.dest, th.bytes), MapInfo(th.src, th.bytes))} :
                  /\ (nh \in conc'.h /\ nh \notin conc.h) => nt \in conc.t
                  /\ (ConcLabels[th.pc] = "assert_b" /\ ~conc'.halted)
                       => (nh \in conc'.h /\ nt \in conc'.t)
      ]_vars

NoOverlapIn(tree) ==
    \A x \in tree : \A y \in tree : x # y => ~Overlap(x.interval, y.interval)

(* C24: in every reachable state no two records of the host store overlap  *)
(* and no two records of the device store overlap; and after an Associate  *)
(* step the only host record overlapping the associated host range is the  *)
(* new one (the records it overlapped are gone), and after one that        *)
(* completed the only device record overlapping the device range is the    *)
(* new one.                                                                *)
C24_OneRecordPerAddress ==
    /\ [](NoOverlapIn(h_to_t) /\ NoOverlapIn(t_to_h))
    /\ [][ (MappingStep /\ "associate" \in TraceSet(call'))
           => /\ \A x \in h_to_t' :
                    Overlap(x.interval, HostOf(call'))
                      => x = Node(HostOf(call'), MapInfo(call'.dest, call'.bytes))
              /\ Node(HostOf(call'), MapInfo(call'.dest, call'.bytes)) \in h_to_t'
              /\ call'.diag = "ok"
                   => \A x \in t_to_h' :
                         Overlap(x.interval, TargetOf(call'))
                           => x = Node(TargetOf(call'),
                                       MapInfo(call'.src, call'.bytes))
         ]_vars

(* the association of one byte at host address 1 has replaced the record   *)
(* of the two bytes at host address 0                                       *)
C24_Witness ==
    /\ call.op = "mapping"
    /\ call.diag = "ok"
    /\ "associate" \in TraceSet(call)
    /\ call.src = 1
    /\ call.bytes = 1
    /\ h_to_t = {Node(HostOf(call), MapInfo(call.dest, call.bytes))}
    /\ hostHist[0].interval = Interval(0, 2)

(* the interval has an address in common with the range [addr, addr+n) *)
SharesAddress(iv, addr, n) ==
    \E a \in addr .. (addr + n - 1) : iv.left_end <= a /\ a < iv.right_end

(* C25: the removal that repairs the host store before the conflicting     *)
(* insert deletes every host record that has an address in common with    *)
(* the associated host range, the records that lie only partly in it       *)
(* included, keeps every other host record, and leaves the device store    *)
(* alone: after the step the host store is the kept records and the new    *)
(* record, and the device store has lost nothing and gained at most the    *)
(* record the same step inserts.                                           *)
C25_RepairRemovesOverlapping ==
    [][ ( /\ MappingStep
          /\ "associate" \in TraceSet(call')
          /\ \E x \in h_to_t : SharesAddress(x.interval, call'.src, call'.bytes) )
        => /\ h_to_t' =
                {x \in h_to_t : ~SharesAddress(x.interval, call'.src, call'.bytes)}
                \cup {Node(HostOf(call'), MapInfo(call'.dest, call'.bytes))}
           /\ t_to_h \subseteq t_to_h'
           /\ t_to_h' \subseteq
                t_to_h \cup {Node(TargetOf(call'), MapInfo(call'.src, call'.bytes))}
      ]_vars

(* the record of host address 0 is kept while the association of host      *)
(* address 1 removes the two-byte record that covered it only partly ...   *)
C25_Witness ==
    /\ call.op = "mapping"
    /\ "associate" \in TraceSet(call)
    /\ call.src = 1
    /\ call.bytes = 1
    /\ hostHist[0].interval = Interval(0, 2)
    /\ hostHist[0] \notin h_to_t
    /\ Node(HostOf(call), MapInfo(call.dest, call.bytes)) \in h_to_t
    /\ t_to_h # {}

(* the intervals of 0 .. MaxBytes bytes *)
AllIntervals ==
    {Interval(a, n) : a \in 0 .. Max(HostSize, DevSize), n \in 0 .. MaxBytes}

(* C26: Overlap is the half-open test: two intervals overlap exactly when  *)
(* they have an address in common; it is symmetric; [a, b) and [b, c) do   *)
(* not overlap; an empty interval overlaps nothing.  So an Associate whose *)
(* host range has no address in common with a host record removes no host  *)
(* record, one whose device range has none in common with a device record  *)
(* raises no conflict, and an Associate of 0 bytes does both.              *)
C26_HalfOpenOverlap ==
    /\ [](\A i \in AllIntervals : \A j \in AllIntervals :
            /\ Overlap(i, j) = Overlap(j, i)
            /\ Overlap(i, j) = SharesAddress(i, j.left_end, j.right_end - j.left_end)
            /\ i.right_end = j.left_end => ~Overlap(i, j)
            /\ i.left_end = i.right_end => ~Overlap(i, j))
    /\ [][ ( /\ MappingStep
             /\ "associate" \in TraceSet(call') )
           => /\ (\A x \in h_to_t :
                     ~SharesAddress(x.interval, call'.src, call'.bytes))
                   => h_to_t \subseteq h_to_t'
              /\ (\A x \in t_to_h :
                     ~SharesAddress(x.interval, call'.dest, call'.bytes))
                   => /\ call'.diag = "ok"
                      /\ t_to_h' = t_to_h \cup {Node(TargetOf(call'),
                                                     MapInfo(call'.src, call'.bytes))}
              /\ call'.bytes = 0 => (h_to_t \subseteq h_to_t' /\ call'.diag = "ok")
         ]_vars

(* two adjacent one-byte ranges are associated on both sides, and an empty *)
(* range has been associated inside                                        *)
C26_Witness ==
    /\ call.op = "mapping"
    /\ call.diag = "ok"
    /\ call.optype = {"alloc", "associate"}
    /\ call.bytes = 0
    /\ call.src = 1
    /\ \E x \in h_to_t : x.interval = Interval(0, 1)
    /\ \E x \in h_to_t : x.interval = Interval(1, 1)
    /\ \E x \in t_to_h : x.interval = Interval(0, 1)
    /\ \E x \in t_to_h : x.interval = Interval(1, 1)
    /\ \E x \in h_to_t : x.interval = Interval(1, 0)

-----------------------------------------------------------------------------
(* Properties of the annotation entry points (SpecScoped) *)

SaReturned == sa.pc = "returned" /\ enable_annotations

(* C28 as worded: every entry point that ran with annotations enabled has  *)
(* made exactly one FuncEntry and exactly one FuncExit when it returns,    *)
(* the depth of the shadow call stack is the depth at the call, and the    *)
(* thread holds no runtime mutex.                                          *)
C28_EveryEntryPointScoped ==
    SaReturned => /\ sa.entries = 1
                  /\ sa.exits = 1
                  /\ sa.depth = sa.depth0
                  /\ sa.locks = 0

(* C28: an entry point that begins with SCOPED_ANNOTATION and ran with     *)
(* annotations enabled has made exactly one FuncEntry, before its body,    *)
(* and exactly one FuncExit, after it, when it returns; an entry point     *)
(* without the macro has made neither; in both cases the depth of the      *)
(* shadow call stack at the return is the depth at the call and the thread *)
(* holds no runtime mutex.                                                 *)
C28_ScopedEntryPointsBalanced ==
    /\ SaReturned => /\ sa.entries = (IF sa.entry.scoped THEN 1 ELSE 0)
                     /\ sa.exits = sa.entries
                     /\ sa.depth = sa.depth0
                     /\ sa.locks = 0
    /\ (sa.pc \in {"body", "locked", "exit"} /\ sa.entry.scoped)
         => /\ sa.entries = 1
            /\ sa.exits = 0
            /\ sa.depth = sa.depth0 + 1

(* AnnotateBenignRace, which takes dyn_ann_ctx->mtx in its body, returns   *)
(* to a caller two frames deep                                             *)
C28_Witness ==
    /\ SaReturned
    /\ sa.entry.name = "AnnotateBenignRace"
    /\ sa.depth0 = 2
    /\ sa.depth = 2
    /\ sa.entries = 1
    /\ sa.exits = 1

-----------------------------------------------------------------------------
(* Properties of the instrumentation pass (SpecPass) *)

(* the pass has run over the function, with Arbalest enabled and no        *)
(* attribute that keeps the function uninstrumented                        *)
PassDone == fn.phase = "done" /\ fn.arbalest /\ fn.attr = "none"

(* the size in bytes of a type of the given store size in bits *)
ByteSize(bits) == (bits + 7) \div 8

(* the loads through the result of a GEP *)
DerivedLoads(insts) ==
    {j \in 1 .. Len(insts) : insts[j].op = "load" /\ insts[j].ptr # 0}

(* C29: bound checks are emitted only in functions whose name starts with  *)
(* the outlined-function prefix; there, before every load through the      *)
(* result of a GEP, and nowhere else, stands one call whose base is the    *)
(* pointer operand of the GEP, whose derived pointer is the result of the  *)
(* GEP and whose size is the size of the load in bytes; stores and loads   *)
(* in other functions get none.                                            *)
C29_BoundCheckPerDerivedLoad ==
    PassDone =>
        fn.calls = IF fn.prefixed
                   THEN { [load |-> j, base |-> fn.insts[fn.insts[j].ptr].base,
                           derived |-> fn.insts[j].ptr,
                           size |-> ByteSize(fn.insts[j].bits)] :
                            j \in DerivedLoads(fn.insts) }
                   ELSE {}

(* C30: every emitted call carries a size of 1, 2, 4, 8 or 16 bytes, never *)
(* the -1 of getMemoryAccessSize.                                          *)
C30_PositiveSize ==
    \A c \in fn.calls : c.size \in {1, 2, 4, 8, 16}

CounterpartCells(t, c) ==
    UNION { CellsOf(x.info.start + (c.dest - x.interval.left_end), c.bytes) :
              x \in find(t, TargetOf(c)) }

(* C32: a To or a From event changes the validity of no cell outside the    *)
(* host range that the device store records as the counterpart of the       *)
(* event's device interval, whatever host address the event carries.        *)
C32_UpdatesCounterpartCells ==
    [][ (MappingStep /\ call'.diag = "ok" /\ call'.optype \in {{"to"}, {"from"}}) =>
          \A c \in Cells :
              shadow'[c] # shadow[c] => c \in CounterpartCells(t_to_h, call')
      ]_vars

(* the device interval of lifecycle call c lies inside record x and is     *)
(* shorter than it                                                         *)
StrictSubRange(c, x) ==
    /\ x.interval.left_end <= c.dest
    /\ c.dest + c.bytes <= x.interval.right_end
    /\ c.bytes < x.interval.right_end - x.interval.left_end

(* C33: a To, From or Disassociate event whose device interval is a strict  *)
(* sub-range of an associated device interval passes the lookup.  To and    *)
(* From set the validity bit of exactly the cells of the range of the       *)
(* event; Disassociate removes the whole record, so that no part of it      *)
(* stays in the device store, and leaves the shadow alone.                  *)
C33_SubRangeEvents ==
    [][ ( /\ MappingStep
          /\ HostInAppMem(call')
          /\ call'.optype \in {{"to"}, {"from"}, {"disassociate"}}
          /\ \E x \in t_to_h : StrictSubRange(call', x) ) =>
          /\ call'.diag = "ok"
          /\ call'.optype = {"to"} =>
                /\ \A c \in Cells :
                      shadow'[c] = IF c \in HostCells(call')
                                   THEN [shadow[c] EXCEPT !.dev = TRUE]
                                   ELSE shadow[c]
                /\ t_to_h' = t_to_h
          /\ call'.optype = {"from"} =>
                /\ \A c \in Cells :
                      shadow'[c] = IF c \in HostCells(call')
                                   THEN [shadow[c] EXCEPT !.host = TRUE]
                                   ELSE shadow[c]
                /\ t_to_h' = t_to_h
          /\ call'.optype = {"disassociate"} =>
                /\ \A x \in t_to_h :
                      StrictSubRange(call', x) =>
                          /\ t_to_h' = t_to_h \ {x}
                          /\ \A y \in t_to_h' : ~Overlap(y.interval, x.interval)
                /\ shadow' = shadow
      ]_vars

C33_Witness ==
    /\ call.op = "mapping"
    /\ call.optype = {"disassociate"}
    /\ call.diag = "ok"
    /\ \E y \in h_to_t :
          /\ y.info.size > call.bytes
          /\ y.info.start <= call.dest
          /\ call.dest + call.bytes <= y.info.start + y.info.size
          /\ \A x \in t_to_h :
                ~Overlap(x.interval, Interval(y.info.start, y.info.size))

(* some record of the store covers the address *)
Mapped(tree, a) == \E x \in tree : Covers(x.interval, a)

(* C31: while an Associate repairs a host-side conflict, every address of   *)
(* its new host interval that the host store covered before the call is     *)
(* covered in every state another thread can observe, by the old record or  *)
(* by the new one: after the removal and before the second insert included. *)
C31_RepairNeverExposesGap ==
    \A p \in Threads :
        ConcLabels[conc.th[p].pc] = "repair_ins" =>
            \A a \in conc.th[p].src .. (conc.th[p].src + conc.th[p].bytes - 1) :
                Mapped(conc.h0, a) => Mapped(conc.h, a)

-----------------------------------------------------------------------------
(* Properties of the thread state (SpecThr) *)

(* the ThreadState fields of thread state t *)
ThrFields(t) ==
    <<t.is_on_target, t.is_in_runtime, t.ignore_reads_and_writes, t.ignore_sync>>

C36_PlainBooleanFlags ==
    /\ [] ( enable_annotations =>
              \A p \in Threads :
                  /\ thr[p].is_on_target = (thr[p].last_region = "enter")
                  /\ thr[p].is_in_runtime = (thr[p].last_runtime = "enter") )
    /\ [][ call'.op = "annotation" =>
              \A q \in Threads \ {call'.thread} : thr'[q] = thr[q]
         ]_vars

C36_Witness ==
    /\ enable_annotations
    /\ call.op = "annotation"
    /\ call.name = "AnnotateExitTargetRegion"
    /\ thr[call.thread].last_region = "exit"
    /\ ~thr[call.thread].is_on_target
    /\ thr[call.thread].is_in_runtime
    /\ thr[3 - call.thread].is_on_target
    /\ thr[3 - call.thread].last_runtime = "exit"

(* C39: for one thread, with annotations enabled, each of pre_lock,         *)
(* pre_unlock, pre_signal and post_divert raises the ignore depth and the   *)
(* ignore-sync depth by one and each of post_lock, post_unlock, post_signal *)
(* and pre_divert lowers both by one.  So in a properly paired sequence     *)
(* neither depth is ever below its starting value, and both are back at it  *)
(* whenever no annotation is open.                                          *)
C39_IgnoreDepthsBalanced ==
    /\ [] ( \A p \in Threads :
              /\ thr[p].ignore_reads_and_writes >= thr[p].start
              /\ thr[p].ignore_sync >= thr[p].start
              /\ thr[p].open = <<>> =>
                    /\ thr[p].ignore_reads_and_writes = thr[p].start
                    /\ thr[p].ignore_sync = thr[p].start )
    /\ [][ (call'.op = "annotation" /\ call'.func_entry) =>
              \E d \in { IF call'.name \in PreNames \cup {"__tsan_mutex_post_divert"}
                         THEN 1
                         ELSE IF call'.name \in PostNames \cup {"__tsan_mutex_pre_divert"}
                              THEN 0 - 1
                              ELSE 0 } :
                  /\ thr'[call'.thread].ignore_reads_and_writes
                        = thr[call'.thread].ignore_reads_and_writes + d
                  /\ thr'[call'.thread].ignore_sync
                        = thr[call'.thread].ignore_sync + d
         ]_vars

C39_Witness ==
    /\ enable_annotations
    /\ call.op = "annotation"
    /\ call.name = "__tsan_mutex_post_lock"
    /\ call.func_entry
    /\ thr[call.thread].open = <<>>
    /\ thr[call.thread].ignore_reads_and_writes = thr[call.thread].start
    /\ thr[call.thread].ignore_sync = thr[call.thread].start
    /\ thr[3 - call.thread].open # <<>>
    /\ thr[3 - call.thread].open[1].diverted
    /\ thr[3 - call.thread].ignore_sync = thr[3 - call.thread].start

-----------------------------------------------------------------------------
(* Properties of the list of expected races (SpecBenign) *)

(* next and prev are inverse on the head and the nodes, and the walk from  *)
(* the head visits every node once                                         *)
WellFormedList(list) ==
    /\ DOMAIN list.next = 0 .. list.n
    /\ DOMAIN list.prev = 0 .. list.n
    /\ \A i \in 0 .. list.n :
          /\ list.next[i] \in 0 .. list.n
          /\ list.prev[i] \in 0 .. list.n
          /\ list.prev[list.next[i]] = i
          /\ list.next[list.prev[i]] = i
    /\ Len(Walk(list)) = list.n
    /\ {Walk(list)[i] : i \in 1 .. list.n} = 1 .. list.n

(* node x of the list and the range [addr, addr + size) share a byte *)
SharesByte(x, addr, size) ==
    \E a \in 0 .. (HostSize + MaxBytes) :
        /\ x.addr <= a /\ a < x.addr + x.size
        /\ addr <= a /\ a < addr + size

(* C40: after any sequence of benign-race annotations the list is a         *)
(* well-formed circular doubly linked list with at most one node for each   *)
(* (addr, size), whose addcount is the number of annotations made with that *)
(* pair.  IsExpectedReport(addr, size) returns true exactly when the range  *)
(* of some node shares a byte with [addr, addr + size); a true result adds  *)
(* one to the hitcount of one node and changes nothing else, a false one    *)
(* changes nothing.                                                         *)
C40_BenignList ==
    /\ [] ( /\ WellFormedList(benign.list)
            /\ \A pr \in BenignPairs :
                  \E S \in {{i \in 1 .. benign.list.n :
                               /\ benign.list.race[i].addr = pr[1]
                               /\ benign.list.race[i].size = pr[2]}} :
                      /\ Cardinality(S) <= 1
                      /\ (S = {}) = (benign.made[pr] = 0)
                      /\ \A i \in S : benign.list.race[i].addcount = benign.made[pr] )
    /\ [][ (call'.op = "expected" /\ benign'.made = benign.made) =>
              /\ call'.ret = (\E i \in 1 .. benign.list.n :
                                 SharesByte(benign.list.race[i], call'.addr, call'.size))
              /\ ~call'.ret => benign' = benign
              /\ call'.ret =>
                    \E i \in 1 .. benign.list.n :
                        benign'.list =
                            [benign.list EXCEPT !.race[i].hitcount = @ + 1]
         ]_vars

C40_Witness ==
    /\ call.op = "expected"
    /\ call.ret
    /\ benign.list.n = MaxList
    /\ \E i \in 1 .. benign.list.n :
          /\ benign.list.race[i].addcount = 2
          /\ benign.list.race[i].hitcount = 0
          /\ SharesByte(benign.list.race[i], call.addr, call.size)
    /\ \E i \in 1 .. benign.list.n :
          /\ benign.list.race[i].hitcount = 1
          /\ benign.list.race[i].size > call.size

-----------------------------------------------------------------------------
(* Properties of sanitizeFunction (SpecSan) *)

(* sanitizeFunction has returned *)
SanDone == fn.phase = "done"

(* the non-atomic loads and stores of the function *)
LoadsAndStores == {j \in 1 .. Len(fn.insts) : fn.insts[j].op \in {"load", "store"}}

(* some call has been inserted into the function *)
Inserted ==
    \/ fn.tsan # {}
    \/ fn.entryexit
    \/ \E j \in 1 .. Len(fn.insts) : fn.arb[j] > 0 \/ fn.bound[j] > 0

(* C37: sanitizeFunction returns true whenever it has inserted a call into  *)
(* the function, the case included in which the only calls inserted are     *)
(* Arbalest read/write callbacks or __arbalest_check_bound calls.           *)
C37_ChangedWhenInstrumented ==
    SanDone => (Inserted => fn.Res)

(* C38 as stated: at the end every non-atomic load or store has been        *)
(* offered to the Arbalest chooser exactly once and every instruction the   *)
(* chooser selected has exactly one Arbalest read/write callback.           *)
C38_OneCallbackPerSelected ==
    (SanDone /\ fn.arbalest) =>
        \A j \in LoadsAndStores :
            /\ fn.offered[j] = 1
            /\ Occurrences(fn.AllLoadsAndStoresForArbalest, j) > 0 => fn.arb[j] = 1

(* C38: every non-atomic load or store is offered to the Arbalest chooser   *)
(* exactly once (never more than once during the traversal, the pending     *)
(* list being empty after every call of the choosers), the chooser selects  *)
(* it at most once, and an instruction has one Arbalest callback when it is *)
(* selected, its type has one of the sizes 8, 16, 32, 64, 128 bits and it   *)
(* is no vtable access, and none otherwise.                                 *)
C38_OfferedOnce ==
    fn.arbalest =>
        /\ \A j \in LoadsAndStores :
              /\ fn.offered[j] <= 1
              /\ fn.offered[j] = 0 =>
                    (fn.phase = "traverse" /\ (j >= fn.i \/
                        \E k \in 1 .. Len(fn.LocalLoadsAndStores) :
                            fn.LocalLoadsAndStores[k] = j))
              /\ Occurrences(fn.AllLoadsAndStoresForArbalest, j) <= 1
        /\ SanDone =>
              \A j \in 1 .. Len(fn.insts) :
                  fn.arb[j] =
                      IF /\ Occurrences(fn.AllLoadsAndStoresForArbalest, j) = 1
                         /\ getMemoryAccessFuncIndex(fn.insts[j].bits) >= 0
                         /\ ~fn.insts[j].vtable
                      THEN 1 ELSE 0

C38_Witness ==
    /\ SanDone
    /\ fn.arbalest
    /\ \E j \in LoadsAndStores :
          /\ j < Len(fn.insts)
          /\ fn.insts[j + 1].op = "call"
          /\ fn.offered[j] = 1
          /\ fn.arb[j] = 1
    /\ \E j \in LoadsAndStores :
          /\ Occurrences(fn.AllLoadsAndStoresForArbalest, j) = 1
          /\ fn.arb[j] = 0

=============================================================================
